---------------------------- MODULE Spec2Model ----------------------------
(***************************************************************************)
(* Verification model of the Rally Track Viewer (rally-live-maps).        *)
(*                                                                         *)
(*   - KMLParser (src/app.js 498-849): coordinate grammar, LineString and  *)
(*     Point passes, placemark information, load operations.               *)
(*   - RallyTrackViewer (src/app.js 10-485): load handling.                *)
(*   - MapManager (src/unnamed/part_000): display of tracks and icons.     *)
(*                                                                         *)
(* Text is a sequence of one-character strings.  The word Infinity, which  *)
(* parseFloat recognises as a literal, is carried as the single lexeme     *)
(* "Infinity".  Numbers are exact decimals m * 10^(-e) with a tag for NaN  *)
(* and the two infinities; exponent notation is outside the alphabet.      *)
(***************************************************************************)
EXTENDS Integers, Sequences, FiniteSets, TLC

VARIABLES
    \* --- coordinate grammar (KMLParser.parseCoordinates) ---
    srcTuples,        \* the tuples (sequences of fields) the text is written from
    coordinatesText,  \* argument of parseCoordinates
    parsedPoints,     \* value returned by parseCoordinates
    cpc,              \* "ready" before the call, "parsed" after it
    \* --- extraction (KMLParser.parseKML on KMLParser instances) ---
    kmlDocs,          \* the document trees handed to parseKML
    parsers,          \* KMLParser instances: this.tracks and this.icons
    returned,         \* per instance, the value its last parseKML call returned
    parsed,           \* per instance, the documents of its last two parseKML calls
    \* --- application (RallyTrackViewer with its KMLParser and MapManager) ---
    app,              \* RallyTrackViewer: tracks, icons, isInitialized
    map,              \* MapManager: track layer group, icon layer group, fitted bounds
    ui,               \* page: trackCount and iconCount texts, messages shown
    kmlParser,        \* the application's KMLParser instance: the arrays that
                      \* this.tracks and this.icons refer to
    arrays,           \* the arrays created by the parser, in order of creation
    loads,            \* the load operations started so far, each with its position
    parseCalls,       \* number of parseKML calls made by load operations
    \* --- display preferences (config.js) ---
    config,           \* the CONFIG object of the page
    localStorage,     \* the item 'rallyTrackViewerConfig': absent or its text
    page,             \* the page: "importing" until config.js has run, then
                      \* "running"; the console lines of loadConfigFromStorage
    runs              \* the parseKML runs made beside the preferences, each with
                      \* the CONFIG and the stored item it ran under

coordVars == <<srcTuples, coordinatesText, parsedPoints, cpc>>

parseVars == <<kmlDocs, parsers, returned, parsed>>

appVars == <<app, map, ui, kmlParser, arrays, loads, parseCalls>>

prefVars == <<config, localStorage, page, runs>>

vars == <<srcTuples, coordinatesText, parsedPoints, cpc,
          kmlDocs, parsers, returned, parsed,
          app, map, ui, kmlParser, arrays, loads, parseCalls,
          config, localStorage, page, runs>>

-----------------------------------------------------------------------------
(* Bounds *)

MaxTuples == 3
MaxFields == 3
MaxLineStrings == 3
MaxPoints == 3
MaxLoads == 2

-----------------------------------------------------------------------------
(* Generic sequence helpers *)

SeqsUpTo(S, n) == UNION {[1..k -> S] : k \in 0..n}

SeqsFromTo(S, lo, n) == UNION {[1..k -> S] : k \in lo..n}

RECURSIVE Flatten(_)
Flatten(ss) == IF ss = <<>> THEN <<>> ELSE Head(ss) \o Flatten(Tail(ss))

RECURSIVE JoinWith(_, _)
JoinWith(ss, sep) ==
    IF ss = <<>> THEN <<>>
    ELSE IF Len(ss) = 1 THEN Head(ss)
    ELSE Head(ss) \o sep \o JoinWith(Tail(ss), sep)

-----------------------------------------------------------------------------
(* Numbers as parseFloat produces them *)

NaN    == [tag |-> "NaN",  m |-> 0, e |-> 0]
PosInf == [tag |-> "Inf",  m |-> 0, e |-> 0]
NegInf == [tag |-> "-Inf", m |-> 0, e |-> 0]

RECURSIVE Normalise(_, _)
Normalise(m, e) ==
    IF e > 0 /\ m % 10 = 0 THEN Normalise(m \div 10, e - 1)
    ELSE [tag |-> "fin", m |-> m, e |-> e]

Fin(m, e) == Normalise(m, e)

Zero == Fin(0, 0)

isNaN(x) == x.tag = "NaN"

isFinite(x) == x.tag = "fin"

Negate(x) ==
    IF x.tag = "fin" THEN [x EXCEPT !.m = 0 - x.m]
    ELSE IF x.tag = "Inf" THEN NegInf
    ELSE IF x.tag = "-Inf" THEN PosInf
    ELSE x

-----------------------------------------------------------------------------
(* String primitives of the JavaScript runtime *)

IsWS(c) == c \in {" ", "\n", "\t"}

Digits == {"0", "1", "2", "3", "4", "5", "6", "7", "8", "9"}

DigitVal(c) ==
    CASE c = "0" -> 0 [] c = "1" -> 1 [] c = "2" -> 2 [] c = "3" -> 3
      [] c = "4" -> 4 [] c = "5" -> 5 [] c = "6" -> 6 [] c = "7" -> 7
      [] c = "8" -> 8 [] c = "9" -> 9

RECURSIVE DropLeadingWS(_)
DropLeadingWS(s) ==
    IF s # <<>> /\ IsWS(Head(s)) THEN DropLeadingWS(Tail(s)) ELSE s

RECURSIVE DropTrailingWS(_)
DropTrailingWS(s) ==
    IF s # <<>> /\ IsWS(s[Len(s)]) THEN DropTrailingWS(SubSeq(s, 1, Len(s) - 1))
    ELSE s

\* String.prototype.trim
trim(s) == DropTrailingWS(DropLeadingWS(s))

\* String.prototype.split(/\s+/): every maximal run of white space is one
\* separator; a leading or trailing run leaves an empty string at that end.
RECURSIVE SplitWSFrom(_, _, _, _)
SplitWSFrom(s, i, cur, acc) ==
    IF i > Len(s) THEN Append(acc, cur)
    ELSE IF IsWS(s[i])
         THEN IF i > 1 /\ IsWS(s[i - 1])
              THEN SplitWSFrom(s, i + 1, cur, acc)
              ELSE SplitWSFrom(s, i + 1, <<>>, Append(acc, cur))
         ELSE SplitWSFrom(s, i + 1, Append(cur, s[i]), acc)

SplitWS(s) == SplitWSFrom(s, 1, <<>>, <<>>)

\* String.prototype.split(','): every comma is a separator.
RECURSIVE SplitCommaFrom(_, _, _, _)
SplitCommaFrom(s, i, cur, acc) ==
    IF i > Len(s) THEN Append(acc, cur)
    ELSE IF s[i] = ","
         THEN SplitCommaFrom(s, i + 1, <<>>, Append(acc, cur))
         ELSE SplitCommaFrom(s, i + 1, Append(cur, s[i]), acc)

SplitComma(s) == SplitCommaFrom(s, 1, <<>>, <<>>)

\* Length of the run of decimal digits of s that starts at position i.
RECURSIVE DigitRun(_, _)
DigitRun(s, i) ==
    IF i <= Len(s) /\ s[i] \in Digits THEN 1 + DigitRun(s, i + 1) ELSE 0

\* Integer value of the digits s[i .. i+n-1] appended to the value acc.
RECURSIVE DigitsValue(_, _, _, _)
DigitsValue(s, i, n, acc) ==
    IF n = 0 THEN acc
    ELSE DigitsValue(s, i + 1, n - 1, acc * 10 + DigitVal(s[i]))

\* parseFloat applied to the unsigned text that starts at position i.
UnsignedFloat(s, i) ==
    IF i <= Len(s) /\ s[i] = "Infinity" THEN PosInf
    ELSE LET n1 == DigitRun(s, i)
             hasDot == i + n1 <= Len(s) /\ s[i + n1] = "."
             n2 == IF hasDot THEN DigitRun(s, i + n1 + 1) ELSE 0
         IN  IF n1 + n2 = 0 THEN NaN
             ELSE Fin(DigitsValue(s, i + n1 + 1, n2, DigitsValue(s, i, n1, 0)), n2)

\* Global parseFloat: skips leading white space, reads an optional sign and
\* the longest prefix that is a decimal literal; anything after it is ignored.
parseFloat(str) ==
    LET s == DropLeadingWS(str)
    IN  IF s = <<>> THEN NaN
        ELSE IF s[1] = "-" THEN Negate(UnsignedFloat(s, 2))
        ELSE IF s[1] = "+" THEN UnsignedFloat(s, 2)
        ELSE UnsignedFloat(s, 1)

-----------------------------------------------------------------------------
(* KMLParser.parseCoordinates *)

\* Faulty variant of CoordStep: latitude and longitude exchanged.
CoordStepSwapped(coord) ==
    IF trim(coord) # <<>>
    THEN LET parts == SplitComma(coord)
         IN  IF Len(parts) >= 2
             THEN LET lon == parseFloat(parts[1])
                      lat == parseFloat(parts[2])
                      alt == IF Len(parts) > 2 THEN parseFloat(parts[3]) ELSE Zero
                  IN  IF ~isNaN(lon) /\ ~isNaN(lat) /\ ~isNaN(alt)
                      THEN <<[lat |-> lon, lon |-> lat, alt |-> alt]>>
                      ELSE <<>>
             ELSE <<>>
    ELSE <<>>

\* Faulty variant of CoordStep: an invalid tuple becomes the point (0, 0, 0).
CoordStepDefaulting(coord) ==
    IF trim(coord) # <<>>
    THEN LET parts == SplitComma(coord)
         IN  IF Len(parts) >= 2
             THEN LET lon == parseFloat(parts[1])
                      lat == parseFloat(parts[2])
                      alt == IF Len(parts) > 2 THEN parseFloat(parts[3]) ELSE Zero
                  IN  IF ~isNaN(lon) /\ ~isNaN(lat) /\ ~isNaN(alt)
                      THEN <<[lat |-> lat, lon |-> lon, alt |-> alt]>>
                      ELSE <<[lat |-> Zero, lon |-> Zero, alt |-> Zero]>>
             ELSE <<>>
    ELSE <<>>

\* Body of the for-loop: the points one element of coords appends.
CoordStep(coord) ==
    IF trim(coord) # <<>>
    THEN LET parts == SplitComma(coord)
         IN  IF Len(parts) >= 2
             THEN LET lon == parseFloat(parts[1])
                      lat == parseFloat(parts[2])
                      alt == IF Len(parts) > 2 THEN parseFloat(parts[3]) ELSE Zero
                  IN  IF ~isNaN(lon) /\ ~isNaN(lat) /\ ~isNaN(alt)
                      THEN <<[lat |-> lat, lon |-> lon, alt |-> alt]>>
                      ELSE <<>>
             ELSE <<>>
    ELSE <<>>

RECURSIVE CoordLoop(_, _, _)
CoordLoop(coords, i, points) ==
    IF i > Len(coords) THEN points
    ELSE CoordLoop(coords, i + 1, points \o CoordStep(coords[i]))

parseCoordinates(text) == CoordLoop(SplitWS(text), 1, <<>>)

-----------------------------------------------------------------------------
(* The document tree as KMLParser reads it.                                *)
(*                                                                         *)
(* An optional value (a DOM lookup that may find nothing, a nullable       *)
(* field) is a sequence of length 0 or 1.  A document gives, in document   *)
(* order, its LineString nodes, its Point nodes and its elements carrying  *)
(* an id; a geometry node gives its first coordinates descendant and its   *)
(* closest Placemark; a Placemark gives its first name, description,       *)
(* styleUrl and Style descendants.                                         *)

Absent == <<>>

Some(x) == <<x>>

IsPresent(o) == o # <<>>

Get(o) == o[1]

\* JavaScript truthiness of a nullable string.
Truthy(o) == o # <<>> /\ o[1] # <<>>

DigitChar(d) ==
    CASE d = 0 -> "0" [] d = 1 -> "1" [] d = 2 -> "2" [] d = 3 -> "3"
      [] d = 4 -> "4" [] d = 5 -> "5" [] d = 6 -> "6" [] d = 7 -> "7"
      [] d = 8 -> "8" [] d = 9 -> "9"

\* Decimal text of a natural number, as a template literal prints it.
RECURSIVE NumberText(_)
NumberText(n) ==
    IF n < 10 THEN <<DigitChar(n)>>
    ELSE Append(NumberText(n \div 10), DigitChar(n % 10))

\* String.prototype.replace(c, ''): removes the first occurrence of c.
RECURSIVE RemoveFirst(_, _)
RemoveFirst(s, c) ==
    IF s = <<>> THEN <<>>
    ELSE IF Head(s) = c THEN Tail(s)
    ELSE <<Head(s)>> \o RemoveFirst(Tail(s), c)

\* k * x for an integer k and x / 2, on parseFloat numbers.
Times(k, x) == IF x.tag = "fin" THEN Fin(k * x.m, x.e) ELSE x

Half(x) == IF x.tag = "fin" THEN Fin(5 * x.m, x.e + 1) ELSE x

\* Document.getElementById: the first element of the document with that id.
RECURSIVE getElementById(_, _)
getElementById(ids, styleId) ==
    IF ids = <<>> THEN Absent
    ELSE IF Head(ids).id = styleId THEN Some(Head(ids))
    ELSE getElementById(Tail(ids), styleId)

-----------------------------------------------------------------------------
(* KMLParser *)

baseSize == 32

\* KMLParser.extractPlacemarkInfo
extractPlacemarkInfo(placemark, index) ==
    IF IsPresent(placemark)
    THEN LET pm == Get(placemark)
         IN  [name |-> IF IsPresent(pm.name) THEN Some(trim(Get(pm.name))) ELSE Absent,
              description |-> IF IsPresent(pm.description)
                              THEN Some(trim(Get(pm.description))) ELSE Absent,
              style |-> IF IsPresent(pm.styleUrl)
                        THEN Some(trim(Get(pm.styleUrl))) ELSE Absent]
    ELSE [name |-> Absent, description |-> Absent, style |-> Absent]

\* Faulty variant of readIconStyle: the size is computed with the icon
\* scale of CONFIG instead of the scale of the IconStyle.
readIconStyleConfigScale(style, iconStyle) ==
    LET withUrl ==
            IF IsPresent(iconStyle.Icon) /\ IsPresent(Get(iconStyle.Icon).href)
            THEN [style EXCEPT !.iconUrl = Some(trim(Get(Get(iconStyle.Icon).href)))]
            ELSE style
        scaleValue == config.value.kml.value.icons.value.scale.value
    IN  IF IsPresent(iconStyle.scale)
        THEN [withUrl EXCEPT
                !.iconSize = Some(<<Times(baseSize, scaleValue), Times(baseSize, scaleValue)>>),
                !.iconAnchor = Some(<<Half(Times(baseSize, scaleValue)),
                                      Half(Times(baseSize, scaleValue))>>)]
        ELSE withUrl

\* Faulty variant of readIconStyle: the anchor is the whole size.
readIconStyleAnchorFull(style, iconStyle) ==
    LET withUrl ==
            IF IsPresent(iconStyle.Icon) /\ IsPresent(Get(iconStyle.Icon).href)
            THEN [style EXCEPT !.iconUrl = Some(trim(Get(Get(iconStyle.Icon).href)))]
            ELSE style
        scaleValue == IF IsPresent(iconStyle.scale)
                      THEN parseFloat(Get(iconStyle.scale)) ELSE NaN
    IN  IF IsPresent(iconStyle.scale) /\ ~isNaN(scaleValue)
        THEN [withUrl EXCEPT
                !.iconSize = Some(<<Times(baseSize, scaleValue), Times(baseSize, scaleValue)>>),
                !.iconAnchor = Some(<<Times(baseSize, scaleValue),
                                      Times(baseSize, scaleValue)>>)]
        ELSE withUrl

\* Faulty variant of readIconStyle: without a numeric scale the size is the
\* base size.
readIconStyleDefaultSize(style, iconStyle) ==
    LET withUrl ==
            IF IsPresent(iconStyle.Icon) /\ IsPresent(Get(iconStyle.Icon).href)
            THEN [style EXCEPT !.iconUrl = Some(trim(Get(Get(iconStyle.Icon).href)))]
            ELSE style
        scaleValue == IF IsPresent(iconStyle.scale)
                      THEN parseFloat(Get(iconStyle.scale)) ELSE NaN
        factor == IF IsPresent(iconStyle.scale) /\ ~isNaN(scaleValue)
                  THEN scaleValue ELSE Fin(1, 0)
    IN  [withUrl EXCEPT
            !.iconSize = Some(<<Times(baseSize, factor), Times(baseSize, factor)>>),
            !.iconAnchor = Some(<<Half(Times(baseSize, factor)),
                                  Half(Times(baseSize, factor))>>)]

\* The assignments one IconStyle element makes to the style record
\* (the href and scale blocks, identical for the inline and referenced style).
readIconStyle(style, iconStyle) ==
    LET withUrl ==
            IF IsPresent(iconStyle.Icon) /\ IsPresent(Get(iconStyle.Icon).href)
            THEN [style EXCEPT !.iconUrl = Some(trim(Get(Get(iconStyle.Icon).href)))]
            ELSE style
        scaleValue == IF IsPresent(iconStyle.scale)
                      THEN parseFloat(Get(iconStyle.scale)) ELSE NaN
    IN  IF IsPresent(iconStyle.scale) /\ ~isNaN(scaleValue)
        THEN [withUrl EXCEPT
                !.iconSize = Some(<<Times(baseSize, scaleValue), Times(baseSize, scaleValue)>>),
                !.iconAnchor = Some(<<Half(Times(baseSize, scaleValue)),
                                      Half(Times(baseSize, scaleValue))>>)]
        ELSE withUrl

\* Faulty variant of extractIconStyle: when the lookup finds nothing, the
\* first element with an id is taken.
extractIconStyleFallback(placemark, ids) ==
    LET style0 == [iconUrl |-> Absent, iconSize |-> Absent, iconAnchor |-> Absent]
    IN  IF ~IsPresent(placemark) THEN style0
        ELSE LET pm == Get(placemark)
                 inline ==
                     IF IsPresent(pm.Style) /\ IsPresent(Get(pm.Style).IconStyle)
                     THEN readIconStyle(style0, Get(Get(pm.Style).IconStyle))
                     ELSE style0
             IN  IF ~Truthy(inline.iconUrl) /\ IsPresent(pm.styleUrl)
                 THEN LET styleId == RemoveFirst(trim(Get(pm.styleUrl)), "#")
                          found == getElementById(ids, styleId)
                          referencedStyle ==
                              IF ~IsPresent(found) /\ ids # <<>> THEN Some(Head(ids))
                              ELSE found
                      IN  IF IsPresent(referencedStyle)
                               /\ IsPresent(Get(referencedStyle).IconStyle)
                          THEN readIconStyle(inline, Get(Get(referencedStyle).IconStyle))
                          ELSE inline
                 ELSE inline

\* KMLParser.extractIconStyle
extractIconStyle(placemark, ids) ==
    LET style0 == [iconUrl |-> Absent, iconSize |-> Absent, iconAnchor |-> Absent]
    IN  IF ~IsPresent(placemark) THEN style0
        ELSE LET pm == Get(placemark)
                 inline ==
                     IF IsPresent(pm.Style) /\ IsPresent(Get(pm.Style).IconStyle)
                     THEN readIconStyle(style0, Get(Get(pm.Style).IconStyle))
                     ELSE style0
             IN  IF ~Truthy(inline.iconUrl) /\ IsPresent(pm.styleUrl)
                 THEN LET styleId == RemoveFirst(trim(Get(pm.styleUrl)), "#")
                          referencedStyle == getElementById(ids, styleId)
                      IN  IF IsPresent(referencedStyle)
                               /\ IsPresent(Get(referencedStyle).IconStyle)
                          THEN readIconStyle(inline, Get(Get(referencedStyle).IconStyle))
                          ELSE inline
                 ELSE inline

TrackText == <<"T", "r", "a", "c", "k", " ">>

PointText == <<"P", "o", "i", "n", "t", " ">>

\* Faulty variant of LineStringStep: numbers by the count of emitted tracks.
LineStringStepRenumbered(tracks, lineString, i) ==
    IF IsPresent(lineString.coordinates) /\ trim(Get(lineString.coordinates)) # <<>>
    THEN LET coordsText == trim(Get(lineString.coordinates))
             points == parseCoordinates(coordsText)
         IN  IF Len(points) > 0
             THEN LET trackInfo == extractPlacemarkInfo(lineString.placemark, Len(tracks))
                  IN  Append(tracks,
                             [name |-> IF Truthy(trackInfo.name) THEN Get(trackInfo.name)
                                       ELSE TrackText \o NumberText(Len(tracks) + 1),
                              description |-> trackInfo.description,
                              points |-> points,
                              originalIndex |-> Len(tracks),
                              style |-> trackInfo.style])
             ELSE tracks
    ELSE tracks

\* Faulty variant of LineStringStep: emits an entry for every node.
LineStringStepPlaceholder(tracks, lineString, i) ==
    LET points == IF IsPresent(lineString.coordinates)
                  THEN parseCoordinates(trim(Get(lineString.coordinates))) ELSE <<>>
        trackInfo == extractPlacemarkInfo(lineString.placemark, i)
    IN  Append(tracks,
               [name |-> IF Truthy(trackInfo.name) THEN Get(trackInfo.name)
                         ELSE TrackText \o NumberText(i + 1),
                description |-> trackInfo.description,
                points |-> points,
                originalIndex |-> i,
                style |-> trackInfo.style])

\* Faulty variant of LineStringStep: skips a node without a Placemark.
LineStringStepNeedsPlacemark(tracks, lineString, i) ==
    IF IsPresent(lineString.coordinates) /\ trim(Get(lineString.coordinates)) # <<>>
           /\ IsPresent(lineString.placemark)
    THEN LET coordsText == trim(Get(lineString.coordinates))
             points == parseCoordinates(coordsText)
         IN  IF Len(points) > 0
             THEN LET trackInfo == extractPlacemarkInfo(lineString.placemark, i)
                  IN  Append(tracks,
                             [name |-> IF Truthy(trackInfo.name) THEN Get(trackInfo.name)
                                       ELSE TrackText \o NumberText(i + 1),
                              description |-> trackInfo.description,
                              points |-> points,
                              originalIndex |-> i,
                              style |-> trackInfo.style])
             ELSE tracks
    ELSE tracks

\* Body of the loop of parseLineStrings for the node at zero-based index i.
LineStringStep(tracks, lineString, i) ==
    IF IsPresent(lineString.coordinates) /\ trim(Get(lineString.coordinates)) # <<>>
    THEN LET coordsText == trim(Get(lineString.coordinates))
             points == parseCoordinates(coordsText)
         IN  IF Len(points) > 0
             THEN LET trackInfo == extractPlacemarkInfo(lineString.placemark, i)
                  IN  Append(tracks,
                             [name |-> IF Truthy(trackInfo.name) THEN Get(trackInfo.name)
                                       ELSE TrackText \o NumberText(i + 1),
                              description |-> trackInfo.description,
                              points |-> points,
                              originalIndex |-> i,
                              style |-> trackInfo.style])
             ELSE tracks
    ELSE tracks

\* KMLParser.parseLineStrings: this.tracks after the loop, from this.tracks
\* before it and the nodes from index i (zero-based) on.
RECURSIVE parseLineStrings(_, _, _)
parseLineStrings(tracks, lineStrings, i) ==
    IF i >= Len(lineStrings) THEN tracks
    ELSE parseLineStrings(LineStringStep(tracks, lineStrings[i + 1], i), lineStrings, i + 1)

\* Faulty variant of PointStep: the position is the last coordinate.
PointStepLastCoordinate(icons, point, ids, i) ==
    IF IsPresent(point.coordinates) /\ trim(Get(point.coordinates)) # <<>>
    THEN LET coordsText == trim(Get(point.coordinates))
             coords == parseCoordinates(coordsText)
         IN  IF Len(coords) > 0
             THEN LET iconInfo == extractPlacemarkInfo(point.placemark, i)
                      iconStyle == extractIconStyle(point.placemark, ids)
                  IN  Append(icons,
                             [name |-> IF Truthy(iconInfo.name) THEN Get(iconInfo.name)
                                       ELSE PointText \o NumberText(i + 1),
                              description |-> iconInfo.description,
                              position |-> coords[Len(coords)],
                              originalIndex |-> i,
                              iconUrl |-> iconStyle.iconUrl,
                              iconSize |-> iconStyle.iconSize,
                              iconAnchor |-> iconStyle.iconAnchor,
                              style |-> iconInfo.style])
             ELSE icons
    ELSE icons

\* Body of the loop of parsePoints for the node at zero-based index i.
PointStep(icons, point, ids, i) ==
    IF IsPresent(point.coordinates) /\ trim(Get(point.coordinates)) # <<>>
    THEN LET coordsText == trim(Get(point.coordinates))
             coords == parseCoordinates(coordsText)
         IN  IF Len(coords) > 0
             THEN LET iconInfo == extractPlacemarkInfo(point.placemark, i)
                      iconStyle == extractIconStyle(point.placemark, ids)
                  IN  Append(icons,
                             [name |-> IF Truthy(iconInfo.name) THEN Get(iconInfo.name)
                                       ELSE PointText \o NumberText(i + 1),
                              description |-> iconInfo.description,
                              position |-> coords[1],
                              originalIndex |-> i,
                              iconUrl |-> iconStyle.iconUrl,
                              iconSize |-> iconStyle.iconSize,
                              iconAnchor |-> iconStyle.iconAnchor,
                              style |-> iconInfo.style])
             ELSE icons
    ELSE icons

\* Faulty variant of parsePoints: the loop ends at the first Point that has
\* no Placemark or no name.
RECURSIVE parsePointsAborting(_, _, _, _)
parsePointsAborting(icons, points, ids, i) ==
    IF i >= Len(points) THEN icons
    ELSE IF ~IsPresent(points[i + 1].placemark)
              \/ ~IsPresent(Get(points[i + 1].placemark).name)
         THEN icons
         ELSE parsePointsAborting(PointStep(icons, points[i + 1], ids, i), points, ids, i + 1)

\* KMLParser.parsePoints
RECURSIVE parsePoints(_, _, _, _)
parsePoints(icons, points, ids, i) ==
    IF i >= Len(points) THEN icons
    ELSE parsePoints(PointStep(icons, points[i + 1], ids, i), points, ids, i + 1)

\* new KMLParser()
NewKMLParser == [tracks |-> <<>>, icons |-> <<>>]

\* Faulty variants of ResetBuffers: no reset, and reset of this.tracks only.
ResetBuffersOmitted(self) == self

ResetBuffersTracksOnly(self) == [tracks |-> <<>>, icons |-> self.icons]

\* The two assignments that open parseKML.
ResetBuffers(self) == [tracks |-> <<>>, icons |-> <<>>]

\* KMLParser.parseKML: the instance after the call; the value returned is
\* the record of its two buffers.
parseKML(self, kmlDoc) ==
    LET cleared == ResetBuffers(self)
    IN  [tracks |-> parseLineStrings(cleared.tracks, kmlDoc.lineStrings, 0),
         icons |-> parsePoints(cleared.icons, kmlDoc.points, kmlDoc.ids, 0)]

-----------------------------------------------------------------------------
(* Inputs of the coordinate grammar *)

\* Field texts: plain, fractional and signed literals, literals followed by
\* other characters, texts with no numeric prefix, the empty field, and the
\* Infinity literal.
FieldPool ==
    { <<"1">>, <<"1", "7", ".", "6", "3">>, <<"-", "4", "7", ".", "5", "0">>,
      <<"1", "2", "0">>, <<".", "5">>, <<"2", "x">>,
      <<"x">>, <<>>, <<".">>, <<"-">>,
      <<"Infinity">>, <<"-", "Infinity">> }

\* Tuples (sequences of fields) used in multi-tuple texts.
TuplePool ==
    { << <<"1">>, <<"2">> >>,
      << <<"3">>, <<"4">>, <<"5">> >>,
      << <<"1", "7", ".", "6", "3">>, <<"4", "7", ".", "6", "9">>, <<"1", "2", "0">> >>,
      << <<"x">>, <<"2">> >>,
      << <<"1">>, <<"x">> >>,
      << <<"1">>, <<"2">>, <<"x">> >>,
      << <<"7">> >>,
      << <<>>, <<"2">> >>,
      << <<"Infinity">>, <<"2">> >>,
      << <<"1">>, <<"2">>, <<"3">>, <<"4">> >> }

\* The text 17.63,47.69,120 17.64,47.70
ExampleTuples ==
    << << <<"1", "7", ".", "6", "3">>, <<"4", "7", ".", "6", "9">>, <<"1", "2", "0">> >>,
       << <<"1", "7", ".", "6", "4">>, <<"4", "7", ".", "7", "0">> >> >>

Separators == { <<" ">>, <<"\n", " ", " ">> }

Paddings == { <<>>, <<"\n", " ">> }

TupleLists ==
    SeqsUpTo(TuplePool, MaxTuples)
      \cup {<<t>> : t \in SeqsFromTo(FieldPool, 1, MaxFields)}
      \cup {ExampleTuples}

RenderTuple(fields) == JoinWith(fields, <<",">>)

RenderText(tuples, sep, pad) ==
    pad \o JoinWith([k \in 1..Len(tuples) |-> RenderTuple(tuples[k])], sep) \o pad

-----------------------------------------------------------------------------
(* Specification of the coordinate grammar *)

CoordIdle ==
    /\ srcTuples = <<>>
    /\ coordinatesText = <<>>
    /\ parsedPoints = <<>>
    /\ cpc = "off"

ParseIdle ==
    /\ kmlDocs = <<>>
    /\ parsers = <<>>
    /\ returned = <<>>
    /\ parsed = <<>>

AppIdle ==
    /\ app = <<>>
    /\ map = <<>>
    /\ ui = <<>>
    /\ kmlParser = <<>>
    /\ arrays = <<>>
    /\ loads = <<>>
    /\ parseCalls = 0

PrefIdle ==
    /\ config = <<>>
    /\ localStorage = <<>>
    /\ page = [phase |-> "off", console |-> <<>>]
    /\ runs = <<>>

CoordInit ==
    /\ ParseIdle
    /\ AppIdle
    /\ PrefIdle
    /\ srcTuples \in TupleLists
    /\ \E sep \in Separators, pad \in Paddings :
           coordinatesText = RenderText(srcTuples, sep, pad)
    /\ parsedPoints = <<>>
    /\ cpc = "ready"

ParseCoordinates ==
    /\ cpc = "ready"
    /\ parsedPoints' = parseCoordinates(coordinatesText)
    /\ cpc' = "parsed"
    /\ UNCHANGED <<srcTuples, coordinatesText>>
    /\ UNCHANGED parseVars
    /\ UNCHANGED appVars
    /\ UNCHANGED prefVars

CoordNext == ParseCoordinates

CoordSpec == CoordInit /\ [][CoordNext]_vars

-----------------------------------------------------------------------------
(* Documents *)

PmNamed ==
    [name |-> Some(<<" ", "A", "\n">>), description |-> Some(<<"d">>),
     styleUrl |-> Some(<<"#", "s", "1">>), Style |-> Absent]

PmBare ==
    [name |-> Absent, description |-> Absent, styleUrl |-> Absent, Style |-> Absent]

PmBlankName ==
    [name |-> Some(<<" ">>), description |-> Absent, styleUrl |-> Absent, Style |-> Absent]

PmInlineStyle ==
    [name |-> Some(<<"B">>), description |-> Absent, styleUrl |-> Absent,
     Style |-> Some([IconStyle |-> Some([Icon |-> Some([href |-> Some(<<"i">>)]),
                                         scale |-> Some(<<"2">>)])])]

\* The elements of the documents that carry an id.
DocIds ==
    << [id |-> <<"s", "1">>,
        IconStyle |-> Some([Icon |-> Some([href |-> Some(<<"j">>)]),
                            scale |-> Some(<<"1", ".", "5">>)])] >>

\* LineString nodes: coordinates absent, empty, white space only, only an
\* invalid tuple, valid without and with a Placemark, and an Infinity field.
LineStringPool ==
    { [coordinates |-> Absent, placemark |-> Some(PmNamed)],
      [coordinates |-> Some(<<>>), placemark |-> Some(PmBare)],
      [coordinates |-> Some(<<"\n", " ">>), placemark |-> Absent],
      [coordinates |-> Some(<<"x", ",", "1">>), placemark |-> Some(PmNamed)],
      [coordinates |-> Some(<<" ", "1", ",", "2", " ", "x", " ", "3", ",", "4", ",", "5", "\n">>),
       placemark |-> Absent],
      [coordinates |-> Some(<<"7", ",", "8">>), placemark |-> Some(PmNamed)],
      [coordinates |-> Some(<<"Infinity", ",", "2">>), placemark |-> Some(PmBlankName)] }

\* Point nodes: white space only, only an invalid tuple, valid without a
\* Placemark (two tuples), valid with a bare, a named and a styled Placemark.
PointPool ==
    { [coordinates |-> Some(<<" ">>), placemark |-> Some(PmNamed)],
      [coordinates |-> Some(<<"1", ",">>), placemark |-> Absent],
      [coordinates |-> Some(<<"7", ",", "8", " ", "1", ",", "2">>), placemark |-> Absent],
      [coordinates |-> Some(<<"3", ",", "4">>), placemark |-> Some(PmNamed)],
      [coordinates |-> Some(<<"5", ",", "6", ",", "7">>), placemark |-> Some(PmInlineStyle)] }

SampleLineString == [coordinates |-> Some(<<"7", ",", "8">>), placemark |-> Some(PmNamed)]

SamplePoint == [coordinates |-> Some(<<"3", ",", "4">>), placemark |-> Some(PmNamed)]

Doc(ls, pts) ==
    [parsererror |-> FALSE, lineStrings |-> ls, points |-> pts, ids |-> DocIds]

\* Documents under test: every sequence of LineString nodes beside zero or
\* one Point, and every sequence of Point nodes beside zero or one LineString.
Documents ==
    {Doc(ls, pts) : ls \in SeqsUpTo(LineStringPool, MaxLineStrings),
                    pts \in {<<>>, <<SamplePoint>>}}
      \cup {Doc(ls, pts) : ls \in {<<>>, <<SampleLineString>>},
                           pts \in SeqsUpTo(PointPool, MaxPoints)}

\* The document parsed before or after the document under test.
OtherDocument ==
    Doc(<<SampleLineString,
          [coordinates |-> Some(<<"9", ",", "9">>), placemark |-> Absent]>>,
        <<SamplePoint>>)

-----------------------------------------------------------------------------
(* Specification of the extraction: parseKML on KMLParser instances.       *)
(* Instance 1 lives on and is reused; instance 2 is constructed anew for   *)
(* each of its calls.                                                      *)

Parsers == {1, 2}

NoResult == <<>>

ParseInit ==
    /\ CoordIdle
    /\ AppIdle
    /\ PrefIdle
    /\ kmlDocs \in {<<a, OtherDocument>> : a \in Documents}
    /\ parsers = [p \in Parsers |-> NewKMLParser]
    /\ returned = [p \in Parsers |-> NoResult]
    /\ parsed = [p \in Parsers |-> <<>>]

\* result = kmlParser.parseKML(kmlDocs[d]) on the long-lived instance
ParseKML(d) ==
    /\ parsers' = [parsers EXCEPT ![1] = parseKML(parsers[1], kmlDocs[d])]
    /\ returned' = [returned EXCEPT ![1] = <<parsers'[1]>>]
    /\ parsed' = [parsed EXCEPT ![1] =
                     IF Len(@) < 2 THEN Append(@, d) ELSE <<@[2], d>>]
    /\ UNCHANGED kmlDocs
    /\ UNCHANGED coordVars
    /\ UNCHANGED appVars
    /\ UNCHANGED prefVars

\* result = new KMLParser().parseKML(kmlDocs[d])
NewParserParseKML(d) ==
    /\ parsers' = [parsers EXCEPT ![2] = parseKML(NewKMLParser, kmlDocs[d])]
    /\ returned' = [returned EXCEPT ![2] = <<parsers'[2]>>]
    /\ parsed' = [parsed EXCEPT ![2] = <<d>>]
    /\ UNCHANGED kmlDocs
    /\ UNCHANGED coordVars
    /\ UNCHANGED appVars
    /\ UNCHANGED prefVars

ParseNext ==
    \/ \E d \in 1..2 : ParseKML(d)
    \/ \E d \in 1..2 : NewParserParseKML(d)

ParseSpec == ParseInit /\ [][ParseNext]_vars

\* KMLParser.getTracks and KMLParser.getIcons
getTracks(self) == self.tracks

getIcons(self) == self.icons

-----------------------------------------------------------------------------
(* Documents for the resolution of icon styles: one Point whose Placemark   *)
(* combines an inline Style, a styleUrl and the elements with an id.        *)

IconPng == <<"i", "c", "o", "n", ".", "p", "n", "g">>

\* IconStyle elements: empty; an Icon without href and a scale that is no
\* number; href only; href and scale; scale only; a blank href with a scale;
\* a scale followed by other characters.
IconStylePool ==
    { [Icon |-> Absent, scale |-> Absent],
      [Icon |-> Some([href |-> Absent]), scale |-> Some(<<"x">>)],
      [Icon |-> Some([href |-> Some(<<" ", "i", "\n">>)]), scale |-> Absent],
      [Icon |-> Some([href |-> Some(<<"i">>)]), scale |-> Some(<<"2">>)],
      [Icon |-> Absent, scale |-> Some(<<"2">>)],
      [Icon |-> Some([href |-> Some(<<" ">>)]), scale |-> Some(<<"1", ".", "5">>)],
      [Icon |-> Absent, scale |-> Some(<<"2", "x">>)] }

\* placemark.getElementsByTagName('Style')[0]: none, a Style without
\* IconStyle, a Style with an IconStyle.
InlineStylePool ==
    {Absent, Some([IconStyle |-> Absent])}
      \cup {Some([IconStyle |-> Some(is)]) : is \in IconStylePool}

\* Text of the styleUrl element, if there is one.
StyleUrlPool ==
    { Absent,
      Some(<<"#", "s", "1">>),
      Some(<<"s", "1">>),
      Some(<<" ", "#", "s", "1", "\n">>),
      Some(<<"s", "#", "1">>),
      Some(<<"#", "#", "s", "1">>),
      Some(<<"#", "n", "o", "p", "e">>) }

StyleElement(id, href, scale) ==
    [id |-> id, IconStyle |-> Some([Icon |-> Some([href |-> href]), scale |-> scale])]

\* The elements with an id, in document order: none; s1 with href and scale
\* beside elements whose ids hold a '#'; s1 with href only; s1 with href and
\* scale 2; s1 with a scale and no Icon; s1 without IconStyle.
IdsPool ==
    { <<>>,
      << StyleElement(<<"s", "1">>, Some(<<"j">>), Some(<<"1", ".", "5">>)),
         StyleElement(<<"s", "#", "1">>, Some(<<"k">>), Absent),
         StyleElement(<<"#", "s", "1">>, Some(<<"h">>), Absent) >>,
      << StyleElement(<<"s", "1">>, Some(IconPng), Absent) >>,
      << StyleElement(<<"s", "1">>, Some(IconPng), Some(<<"2">>)) >>,
      << [id |-> <<"s", "1">>,
          IconStyle |-> Some([Icon |-> Absent, scale |-> Some(<<"1", ".", "5">>)])] >>,
      << [id |-> <<"s", "1">>, IconStyle |-> Absent] >> }

ExampleCoordinates == <<"1", "7", ".", "6", "3", ",", "4", "7", ".", "6", "9">>

StyledPoint(styleUrl, inlineStyle) ==
    [coordinates |-> Some(ExampleCoordinates),
     placemark |-> Some([name |-> Some(<<"P">>), description |-> Absent,
                         styleUrl |-> styleUrl, Style |-> inlineStyle])]

\* Point nodes for the position: two tuples, an invalid tuple before two
\* valid ones, valid tuples around an invalid one, a single tuple.
PositionPointPool ==
    { [coordinates |-> Some(<<"7", ",", "8", " ", "1", ",", "2">>), placemark |-> Absent],
      [coordinates |-> Some(<<"x", "\n", "5", ",", "6", ",", "7", " ", "1", ",", "2">>),
       placemark |-> Some(PmNamed)],
      [coordinates |-> Some(<<" ", "3", ",", "4", " ", "9", " ", "1", ",", "2", " ">>),
       placemark |-> Some(PmBare)],
      [coordinates |-> Some(<<"3", ",", "4">>), placemark |-> Some(PmInlineStyle)] }

\* Nodes with a defect each: no coordinates, no number in the coordinates,
\* no Placemark, a Placemark without name, description, styleUrl and Style,
\* a blank name, an unresolved style reference beside an empty IconStyle.
DefectPool ==
    { [coordinates |-> Absent, placemark |-> Some(PmNamed)],
      [coordinates |-> Some(<<"x", ",", "1">>), placemark |-> Some(PmNamed)],
      [coordinates |-> Some(<<"1", ",", "2">>), placemark |-> Absent],
      [coordinates |-> Some(<<"3", ",", "4">>), placemark |-> Some(PmBare)],
      [coordinates |-> Some(<<"5", ",", "6">>), placemark |-> Some(PmBlankName)],
      [coordinates |-> Some(<<"7", ",", "8">>),
       placemark |-> Some([name |-> Absent, description |-> Some(<<>>),
                           styleUrl |-> Some(<<"#", "n", "o", "p", "e">>),
                           Style |-> Some([IconStyle |->
                                              Some([Icon |-> Absent, scale |-> Absent])])])] }

DocWithIds(ls, pts, ids) ==
    [parsererror |-> FALSE, lineStrings |-> ls, points |-> pts, ids |-> ids]

\* Documents under test: every combination of inline Style, styleUrl and
\* elements with an id on one Point; one or two Points of PositionPointPool;
\* and two defective nodes as LineStrings and as Points.
IconDocuments ==
    {DocWithIds(<<>>, <<StyledPoint(u, st)>>, ids) :
        u \in StyleUrlPool, st \in InlineStylePool, ids \in IdsPool}
      \cup {Doc(<<>>, pts) : pts \in SeqsFromTo(PositionPointPool, 1, 2)}
      \cup {Doc(<<a, b>>, <<b, a>>) : a \in DefectPool, b \in DefectPool}

IconInit ==
    /\ CoordIdle
    /\ AppIdle
    /\ PrefIdle
    /\ kmlDocs \in {<<a, OtherDocument>> : a \in IconDocuments}
    /\ parsers = [p \in Parsers |-> NewKMLParser]
    /\ returned = [p \in Parsers |-> NoResult]
    /\ parsed = [p \in Parsers |-> <<>>]

IconSpec == IconInit /\ [][ParseNext]_vars

-----------------------------------------------------------------------------
(* Display preferences (config.js): the CONFIG object, its updates and the *)
(* record kept in localStorage.  A JavaScript value carries its type; an   *)
(* object is a function from its own keys to values.                       *)

JNumber(x) == [type |-> "number", value |-> x]

JString(s) == [type |-> "string", value |-> s]

JBoolean(b) == [type |-> "boolean", value |-> b]

JArray(s) == [type |-> "array", value |-> s]

JObject(f) == [type |-> "object", value |-> f]

JNull == [type |-> "null", value |-> <<>>]

JUndefined == [type |-> "undefined", value |-> <<>>]

\* o[k] for a value that is not null or undefined: own keys of an object,
\* undefined otherwise (no key read by the program is an inherited one).
Prop(o, k) ==
    IF o.type = "object" /\ k \in DOMAIN o.value THEN o.value[k] ELSE JUndefined

\* o[keys[1]][keys[2]]...
RECURSIVE Path(_, _)
Path(o, keys) ==
    IF keys = <<>> THEN o ELSE Path(Prop(o, Head(keys)), Tail(keys))

\* JavaScript truthiness.
JTruthy(v) ==
    CASE v.type = "number" -> v.value.tag # "NaN" /\ v.value # Zero
      [] v.type = "string" -> v.value # ""
      [] v.type = "boolean" -> v.value
      [] v.type \in {"null", "undefined"} -> FALSE
      [] OTHER -> TRUE

\* The CONFIG literal: its version, the preferences, the map types and the
\* icon defaults (the keys of the page layout, the zoom and the debug
\* settings are not read by the operations modelled here).
DefaultConfig ==
    JObject([version |-> JString("1.2.0"),
             map |-> JObject([
                 opacity |-> JNumber(Fin(100, 0)),
                 mapTypes |-> JObject([
                     osm |-> JObject([name |-> JString("OpenStreetMap")]),
                     satellite |-> JObject([name |-> JString("Satellite")]),
                     terrain |-> JObject([name |-> JString("Terrain")])]),
                 tracks |-> JObject([
                     color |-> JString("#e20074"),
                     weight |-> JNumber(Fin(10, 0)),
                     opacity |-> JNumber(Fin(100, 0)),
                     smoothFactor |-> JNumber(Fin(1, 0))])]),
             kml |-> JObject([
                 icons |-> JObject([
                     defaultSize |-> JArray(<<JNumber(Fin(32, 0)), JNumber(Fin(32, 0))>>),
                     scale |-> JNumber(Fin(2, 0)),
                     showPopups |-> JBoolean(TRUE)])])])

\* getMapTypeConfig: CONFIG.map.mapTypes[mapType] || null
getMapTypeConfig(mapType) ==
    LET mapConfig == Path(config, <<"map", "mapTypes", mapType>>)
    IN  IF JTruthy(mapConfig) THEN mapConfig ELSE JNull

\* Faulty variant of deepMerge: an object of the source replaces the object
\* of the target.
deepMergeReplacing(target, source) ==
    JObject([key \in DOMAIN target.value \cup DOMAIN source.value |->
                IF key \in DOMAIN source.value THEN source.value[key]
                ELSE target.value[key]])

\* deepMerge of updateConfig, for a target whose values at the keys where
\* the source holds an object are objects or falsy.
RECURSIVE deepMerge(_, _)
deepMerge(target, source) ==
    JObject([key \in DOMAIN target.value \cup DOMAIN source.value |->
                IF key \notin DOMAIN source.value THEN target.value[key]
                ELSE IF JTruthy(source.value[key]) /\ source.value[key].type = "object"
                THEN deepMerge(IF JTruthy(Prop(target, key)) THEN target.value[key]
                               ELSE JObject(<<>>),
                               source.value[key])
                ELSE source.value[key]])

\* updateConfig: CONFIG after the call.
updateConfig(c, updates) == deepMerge(c, updates)

\* What JSON.stringify keeps of a value: a number that is not finite becomes
\* null, a key whose value is undefined is left out.
RECURSIVE ToJSON(_)
ToJSON(v) ==
    CASE v.type = "number" -> IF isFinite(v.value) THEN v ELSE JNull
      [] v.type = "object" ->
            JObject([key \in {k \in DOMAIN v.value : v.value[k].type # "undefined"} |->
                        ToJSON(v.value[key])])
      [] v.type = "array" ->
            JArray([i \in 1..Len(v.value) |->
                       IF v.value[i].type = "undefined" THEN JNull
                       ELSE ToJSON(v.value[i])])
      [] OTHER -> v

\* A text is given by the value JSON.parse reads from it, or, when it is no
\* JSON text, by its characters.
JSONstringify(v) == [json |-> Some(ToJSON(v)), raw |-> "json"]

NotJSON(chars) == [json |-> Absent, raw |-> chars]

\* Truthiness of a text: false for the empty string only.
TextTruthy(text) == IsPresent(text.json) \/ text.raw # ""

\* Faulty variant of loadConfigFromStorage: no version check.
loadConfigFromStorageAnyVersion(c, stored) ==
    IF ~IsPresent(stored) \/ ~TextTruthy(Get(stored))
    THEN [config |-> c, localStorage |-> stored, console |-> <<>>]
    ELSE IF ~IsPresent(Get(stored).json)
    THEN [config |-> c, localStorage |-> Absent,
          console |-> <<"Failed to load configuration from localStorage">>]
    ELSE LET storedConfig == Get(Get(stored).json)
         IN  IF storedConfig.type = "null"
             THEN [config |-> c, localStorage |-> Absent,
                   console |-> <<"Failed to load configuration from localStorage">>]
             ELSE [config |-> updateConfig(c, storedConfig), localStorage |-> stored,
                   console |-> <<"Configuration loaded from localStorage">>]

\* loadConfigFromStorage on CONFIG c and the stored item: CONFIG, the item
\* and the console after the call.  JSON.parse throws on a text that is no
\* JSON, the read of .version throws on null; the catch removes the item.
loadConfigFromStorage(c, stored) ==
    IF ~IsPresent(stored) \/ ~TextTruthy(Get(stored))
    THEN [config |-> c, localStorage |-> stored, console |-> <<>>]
    ELSE IF ~IsPresent(Get(stored).json)
    THEN [config |-> c, localStorage |-> Absent,
          console |-> <<"Failed to load configuration from localStorage">>]
    ELSE LET storedConfig == Get(Get(stored).json)
         IN  IF storedConfig.type = "null"
             THEN [config |-> c, localStorage |-> Absent,
                   console |-> <<"Failed to load configuration from localStorage">>]
             ELSE IF \/ Prop(storedConfig, "version").type # Prop(c, "version").type
                     \/ Prop(storedConfig, "version").value # Prop(c, "version").value
             THEN [config |-> c, localStorage |-> Absent,
                   console |-> <<"Configuration version mismatch. Clearing cache.">>]
             ELSE [config |-> updateConfig(c, storedConfig), localStorage |-> stored,
                   console |-> <<"Configuration loaded from localStorage">>]

\* saveConfigToStorage: the stored item after the call.  setItem either
\* succeeds (ok) or throws, which the catch only logs.
saveConfigToStorage(c, stored, ok) ==
    IF ok
    THEN Some(JSONstringify(JObject([key \in DOMAIN c.value \cup {"version"} |->
                                        IF key = "version" THEN Prop(c, "version")
                                        ELSE c.value[key]])))
    ELSE stored

\* updateTrackStyle, updateMapOpacity, updateIconScale: CONFIG and the
\* stored item after the call.
updateTrackStyle(c, stored, trackStyle, ok) ==
    LET updates == JObject([map |-> JObject([tracks |-> trackStyle])])
        c1 == updateConfig(c, updates)
    IN  [config |-> c1, localStorage |-> saveConfigToStorage(c1, stored, ok)]

updateMapOpacity(c, stored, opacity, ok) ==
    LET updates == JObject([map |-> JObject([opacity |-> opacity])])
        c1 == updateConfig(c, updates)
    IN  [config |-> c1, localStorage |-> saveConfigToStorage(c1, stored, ok)]

updateIconScale(c, stored, scale, ok) ==
    LET updates == JObject([kml |-> JObject([icons |-> JObject([scale |-> scale])])])
        c1 == updateConfig(c, updates)
    IN  [config |-> c1, localStorage |-> saveConfigToStorage(c1, stored, ok)]

-----------------------------------------------------------------------------
(* MapManager: the tile layer, the two layer groups and what is displayed  *)
(* in them.  A layer in a group is recorded by its geometry (and, for a     *)
(* marker, its image and size); onMap holds the layers the Leaflet map      *)
(* has.  The line style read from CONFIG.map.tracks does not decide what    *)
(* is in a layer group and is not recorded.                                 *)

RECURSIVE Pow10(_)
Pow10(n) == IF n = 0 THEN 1 ELSE 10 * Pow10(n - 1)

\* x / 100 and x * y on numbers; Math.round (halves go up); and
\* Math.max(0, Math.min(100, x)).
Div100(x) == IF x.tag = "fin" THEN Fin(x.m, x.e + 2) ELSE x

Mul(x, y) ==
    IF x.tag = "fin" /\ y.tag = "fin" THEN Fin(x.m * y.m, x.e + y.e)
    ELSE IF x.tag = "NaN" \/ y.tag = "NaN" \/ x = Zero \/ y = Zero THEN NaN
    ELSE IF (x.tag = "-Inf" \/ (x.tag = "fin" /\ x.m < 0))
               = (y.tag = "-Inf" \/ (y.tag = "fin" /\ y.m < 0))
    THEN PosInf
    ELSE NegInf

MathRound(x) ==
    IF x.tag = "fin" THEN Fin((2 * x.m + Pow10(x.e)) \div (2 * Pow10(x.e)), 0) ELSE x

Clamp(x) ==
    CASE x.tag = "NaN" -> NaN
      [] x.tag = "Inf" -> Fin(100, 0)
      [] x.tag = "-Inf" -> Zero
      [] OTHER -> IF x.m < 0 THEN Zero
                  ELSE IF x.m > 100 * Pow10(x.e) THEN Fin(100, 0)
                  ELSE x

\* new MapManager('map')
NewMapManager ==
    [currentTileLayer |-> Absent, currentMapType |-> "osm",
     tracksVisible |-> TRUE, iconsVisible |-> TRUE,
     trackLayerGroup |-> <<>>, iconLayerGroup |-> <<>>,
     onMap |-> {}, fitted |-> Absent]

\* Faulty variant of setMapType: the tile layer is created without the
\* opacity option and has the opacity 1 of the library.
setMapTypeDefaultOpacity(m, mapType) ==
    LET removed == IF IsPresent(m.currentTileLayer)
                   THEN [m EXCEPT !.onMap = @ \ {"tileLayer"},
                                  !.currentTileLayer = Absent]
                   ELSE m
    IN  IF mapType = "none" THEN [removed EXCEPT !.currentMapType = "none"]
        ELSE IF getMapTypeConfig(mapType) = JNull THEN removed
        ELSE [removed EXCEPT
                !.currentTileLayer = Some([mapType |-> mapType, opacity |-> Fin(1, 0)]),
                !.onMap = @ \cup {"tileLayer"},
                !.currentMapType = mapType]

\* MapManager.setMapType
setMapType(m, mapType) ==
    LET removed == IF IsPresent(m.currentTileLayer)
                   THEN [m EXCEPT !.onMap = @ \ {"tileLayer"},
                                  !.currentTileLayer = Absent]
                   ELSE m
    IN  IF mapType = "none" THEN [removed EXCEPT !.currentMapType = "none"]
        ELSE IF getMapTypeConfig(mapType) = JNull THEN removed
        ELSE [removed EXCEPT
                !.currentTileLayer =
                    Some([mapType |-> mapType,
                          opacity |-> Div100(Path(config, <<"map", "opacity">>).value)]),
                !.onMap = @ \cup {"tileLayer"},
                !.currentMapType = mapType]

\* MapManager.init: the two layer groups are created and added to the map,
\* then setMapType('osm').
MapManagerInit(m) ==
    setMapType([m EXCEPT !.trackLayerGroup = <<>>, !.iconLayerGroup = <<>>,
                         !.onMap = {"trackLayerGroup", "iconLayerGroup"}], "osm")

\* MapManager.getCurrentMapType, areTracksVisible, areIconsVisible
getCurrentMapType(m) == m.currentMapType

areTracksVisible(m) == m.tracksVisible

areIconsVisible(m) == m.iconsVisible

\* The forEach of MapManager.displayTracks: one polyline per track that has
\* at least two points.
RECURSIVE TrackPolylines(_)
TrackPolylines(tracks) ==
    IF tracks = <<>> THEN <<>>
    ELSE (IF Len(Head(tracks).points) < 2 THEN <<>>
          ELSE <<[latlngs |-> Head(tracks).points]>>)
           \o TrackPolylines(Tail(tracks))

\* Faulty variant of displayTracks: the group is not cleared.
displayTracksKeeping(m, tracks) ==
    [m EXCEPT !.trackLayerGroup = @ \o TrackPolylines(tracks)]

\* Faulty variant of displayTracks: the group is added to the map again.
displayTracksShowing(m, tracks) ==
    [m EXCEPT !.trackLayerGroup = TrackPolylines(tracks),
              !.onMap = @ \cup {"trackLayerGroup"}]

\* MapManager.displayTracks: the track layer group is cleared and receives
\* the polylines.
displayTracks(m, tracks) == [m EXCEPT !.trackLayerGroup = TrackPolylines(tracks)]

\* The marker of MapManager.displayIcons for one icon: with an iconUrl, an
\* image of the icon's size (or the default size) times CONFIG.kml.icons.scale;
\* without, the default marker.
IconMarker(icon) ==
    IF Truthy(icon.iconUrl)
    THEN LET scale == Path(config, <<"kml", "icons", "scale">>).value
             defaultSize == Path(config, <<"kml", "icons", "defaultSize">>).value
             iconBaseSize == IF IsPresent(icon.iconSize) THEN Get(icon.iconSize)
                             ELSE <<defaultSize[1].value, defaultSize[2].value>>
             scaledSize == <<MathRound(Mul(iconBaseSize[1], scale)),
                             MathRound(Mul(iconBaseSize[2], scale))>>
         IN  [latLng |-> <<icon.position.lat, icon.position.lon>>,
              iconUrl |-> icon.iconUrl,
              iconSize |-> scaledSize,
              iconAnchor |-> <<MathRound(Half(scaledSize[1])),
                               MathRound(Half(scaledSize[2]))>>]
    ELSE [latLng |-> <<icon.position.lat, icon.position.lon>>,
          iconUrl |-> Absent,
          iconSize |-> <<Fin(20, 0), Fin(20, 0)>>,
          iconAnchor |-> <<Fin(10, 0), Fin(10, 0)>>]

\* MapManager.displayIcons: the icon layer group is cleared and receives one
\* marker per icon (every position produced by the parser has numeric
\* lat and lon).
displayIcons(m, icons) ==
    [m EXCEPT !.iconLayerGroup = [k \in 1..Len(icons) |-> IconMarker(icons[k])]]

\* MapManager.setTracksVisible and setIconsVisible
setTracksVisible(m, visible) ==
    [m EXCEPT !.tracksVisible = visible,
              !.onMap = IF visible THEN @ \cup {"trackLayerGroup"}
                        ELSE @ \ {"trackLayerGroup"}]

setIconsVisible(m, visible) ==
    [m EXCEPT !.iconsVisible = visible,
              !.onMap = IF visible THEN @ \cup {"iconLayerGroup"}
                        ELSE @ \ {"iconLayerGroup"}]

\* MapManager.fitToContent: the map is fitted to the bounds of all points of
\* all tracks and all icon positions, if there is any.
fitToContent(m, tracks, icons) ==
    LET trackPoints ==
            UNION {{<<tracks[k].points[n].lat, tracks[k].points[n].lon>> :
                        n \in 1..Len(tracks[k].points)} : k \in 1..Len(tracks)}
        iconPoints ==
            {<<icons[k].position.lat, icons[k].position.lon>> : k \in 1..Len(icons)}
    IN  IF trackPoints \cup iconPoints # {}
        THEN [m EXCEPT !.fitted = Some(trackPoints \cup iconPoints)]
        ELSE m

\* MapManager.clearAll
clearAll(m) == [m EXCEPT !.trackLayerGroup = <<>>, !.iconLayerGroup = <<>>]

\* MapManager.setMapOpacity
setMapOpacity(m, opacity) ==
    LET leafletOpacity == Div100(Clamp(opacity))
    IN  IF IsPresent(m.currentTileLayer)
        THEN [m EXCEPT !.currentTileLayer = Some([Get(@) EXCEPT !.opacity = leafletOpacity])]
        ELSE m

-----------------------------------------------------------------------------
(* RallyTrackViewer: loading *)

\* RallyTrackViewer.updateCounts
updateCounts(w) ==
    [w EXCEPT !.ui.trackCount = Some(Len(w.app.tracks)),
              !.ui.iconCount = Some(Len(w.app.icons))]

\* Faulty variant of handleKMLLoaded: the entities handed over are added to
\* the ones the application holds.
handleKMLLoadedMerging(w, tracks, icons) ==
    LET w1 == [w EXCEPT !.app.tracks = @ \o tracks, !.app.icons = @ \o icons]
        w2 == [w1 EXCEPT !.map =
                  fitToContent(displayIcons(displayTracks(w1.map, w1.app.tracks),
                                            w1.app.icons),
                               w1.app.tracks, w1.app.icons)]
    IN  updateCounts(w2)

\* RallyTrackViewer.handleKMLLoaded on the world w = [app, map, ui]; tracks
\* and icons are the entities in the two arrays handed over.
handleKMLLoaded(w, tracks, icons) ==
    LET w1 == [w EXCEPT !.app.tracks = tracks, !.app.icons = icons]
        w2 == [w1 EXCEPT !.map =
                  fitToContent(displayIcons(displayTracks(w1.map, w1.app.tracks),
                                            w1.app.icons),
                               w1.app.tracks, w1.app.icons)]
    IN  updateCounts(w2)

\* RallyTrackViewer.showMessage
showMessage(w, message, type) ==
    [w EXCEPT !.ui.messages = Append(@, [text |-> message, type |-> type])]

\* catch block of RallyTrackViewer.autoLoadKML: a console line only
autoLoadKMLCatch(w, error) == w

\* Faulty variant of loadKMLFileCatch: also displays an empty result.
loadKMLFileCatchClearing(w, error) ==
    handleKMLLoaded(showMessage(w, error, "error"), <<>>, <<>>)

\* Faulty variant of loadKMLFileCatch: a console line only.
loadKMLFileCatchSilent(w, error) == w

\* catch block of RallyTrackViewer.loadKMLFile
loadKMLFileCatch(w, error) == showMessage(w, error, "error")

\* The objects a KMLParser instance works on: the arrays created so far
\* and the two of them that this.tracks and this.icons refer to.
Heap(arr, self) == [arrays |-> arr, tracks |-> self.tracks, icons |-> self.icons]

\* Faulty variant of AssignNewArrays: the two buffers are emptied in place.
AssignNewArraysInPlace(h) ==
    [h EXCEPT !.arrays[h.tracks] = <<>>, !.arrays[h.icons] = <<>>]

\* this.tracks = []; this.icons = []: two arrays are created and the two
\* fields refer to them; the arrays they referred to before are not written.
AssignNewArrays(h) ==
    [arrays |-> h.arrays \o << <<>>, <<>> >>,
     tracks |-> Len(h.arrays) + 1,
     icons |-> Len(h.arrays) + 2]

\* KMLParser.parseKML on the objects: the entities are pushed to the arrays
\* the two fields refer to after the assignments.
parseKMLOnHeap(h, kmlDoc) ==
    LET h1 == AssignNewArrays(h)
        after == parseKML([tracks |-> h1.arrays[h1.tracks],
                           icons |-> h1.arrays[h1.icons]], kmlDoc)
    IN  [h1 EXCEPT !.arrays[h1.tracks] = after.tracks,
                   !.arrays[h1.icons] = after.icons]

\* return { tracks: this.tracks, icons: this.icons }: the two arrays
\* themselves, not copies of them.
parseKMLResult(h) == [tracks |-> h.tracks, icons |-> h.icons]

\* Faulty variant of loadParse: no parsererror check.
loadParseUnchecked(h, kmlDoc) ==
    LET after == parseKMLOnHeap(h, kmlDoc)
    IN  [heap |-> after, result |-> Some(parseKMLResult(after)), error |-> <<>>,
         parsed |-> TRUE]

\* KMLParser.loadKMLFile / loadKMLFromURL from the point where the text is
\* available: the parsererror check and the parseKML call.
loadParse(h, kmlDoc) ==
    IF kmlDoc.parsererror
    THEN [heap |-> h, result |-> Absent,
          error |-> <<"Invalid KML file format">>, parsed |-> FALSE]
    ELSE LET after == parseKMLOnHeap(h, kmlDoc)
         IN  [heap |-> after, result |-> Some(parseKMLResult(after)), error |-> <<>>,
              parsed |-> TRUE]

\* Documents the markup parser can hand to a load: two well-formed documents
\* with entities (one of them with a track of several points), an empty one,
\* and one with a parsererror node next to the part of the content that was
\* read before the error.
MultiPointLineString ==
    [coordinates |-> Some(<<" ", "1", ",", "2", " ", "x", " ", "3", ",", "4", ",", "5", "\n">>),
     placemark |-> Absent]

LoadDocuments ==
    { OtherDocument,
      Doc(<<MultiPointLineString, SampleLineString>>, <<SamplePoint>>),
      Doc(<<>>, <<>>),
      [parsererror |-> TRUE, lineStrings |-> <<MultiPointLineString>>,
       points |-> <<SamplePoint>>, ids |-> DocIds] }

World == [app |-> app, map |-> map, ui |-> ui]

SetWorld(w) ==
    /\ app' = w.app
    /\ map' = w.map
    /\ ui' = w.ui

NewLoad(kind, pc) ==
    [kind |-> kind, pc |-> pc, doc |-> Absent, result |-> Absent,
     error |-> <<>>, handled |-> FALSE]

\* The state when the constructor returns: init has run up to the fetch of
\* the default file inside autoLoadKML.
Init ==
    /\ CoordIdle
    /\ ParseIdle
    /\ config = DefaultConfig
    /\ localStorage = Absent
    /\ page = [phase |-> "running", console |-> <<>>]
    /\ runs = <<>>
    /\ app = [tracks |-> <<>>, icons |-> <<>>, isInitialized |-> FALSE]
    /\ map = MapManagerInit(NewMapManager)
    /\ ui = [trackCount |-> Absent, iconCount |-> Absent, messages |-> <<>>]
    /\ arrays = << <<>>, <<>> >>
    /\ kmlParser = [tracks |-> 1, icons |-> 2]
    /\ loads = <<NewLoad("url", "fetch")>>
    /\ parseCalls = 0

\* A promise has settled and the function awaiting it has not resumed yet.
\* The resumption is a microtask: it runs before the next event or I/O
\* completion is handled.
MicrotaskPending ==
    \/ \E l \in 1..Len(loads) : loads[l].pc \in {"resolved", "rejected"}
    \/ ~app.isInitialized /\ loads[1].pc \in {"done", "failed"}

\* change event of the file input with a file chosen: loadKMLFile(file) runs
\* up to await file.text().
KmlFileChange ==
    /\ ~MicrotaskPending
    /\ Len(loads) < MaxLoads
    /\ loads' = Append(loads, NewLoad("file", "text"))
    /\ UNCHANGED <<app, map, ui, kmlParser, arrays, parseCalls>>
    /\ UNCHANGED <<coordVars, parseVars, prefVars>>

\* fetch(url) rejects.
FetchRejects(l) ==
    /\ ~MicrotaskPending
    /\ loads[l].pc = "fetch"
    /\ loads' = [loads EXCEPT ![l].pc = "rejected", ![l].error = <<"Failed to fetch">>]
    /\ UNCHANGED <<app, map, ui, kmlParser, arrays, parseCalls>>
    /\ UNCHANGED <<coordVars, parseVars, prefVars>>

\* fetch(url) resolves with a response; a response that is not ok is thrown.
FetchResponds(l, ok) ==
    /\ ~MicrotaskPending
    /\ loads[l].pc = "fetch"
    /\ loads' = IF ok THEN [loads EXCEPT ![l].pc = "text"]
                ELSE [loads EXCEPT ![l].pc = "rejected", ![l].error = <<"HTTP">>]
    /\ UNCHANGED <<app, map, ui, kmlParser, arrays, parseCalls>>
    /\ UNCHANGED <<coordVars, parseVars, prefVars>>

\* file.text() or response.text() rejects.
TextRejects(l) ==
    /\ ~MicrotaskPending
    /\ loads[l].pc = "text"
    /\ loads' = [loads EXCEPT ![l].pc = "rejected", ![l].error = <<"NotReadable">>]
    /\ UNCHANGED <<app, map, ui, kmlParser, arrays, parseCalls>>
    /\ UNCHANGED <<coordVars, parseVars, prefVars>>

\* file.text() or response.text() resolves; DOMParser gives kmlDoc; the rest
\* of loadKMLFile / loadKMLFromURL runs to its return or throw.
TextResolves(l, kmlDoc) ==
    /\ ~MicrotaskPending
    /\ loads[l].pc = "text"
    /\ \E out \in {loadParse(Heap(arrays, kmlParser), kmlDoc)} :
           /\ arrays' = out.heap.arrays
           /\ kmlParser' = [tracks |-> out.heap.tracks, icons |-> out.heap.icons]
           /\ parseCalls' = IF out.parsed THEN parseCalls + 1 ELSE parseCalls
           /\ loads' = [loads EXCEPT ![l].doc = Some(kmlDoc),
                                     ![l].result = out.result,
                                     ![l].error = out.error,
                                     ![l].pc = IF out.error = <<>> THEN "resolved"
                                               ELSE "rejected"]
    /\ UNCHANGED <<app, map, ui>>
    /\ UNCHANGED <<coordVars, parseVars, prefVars>>

\* autoLoadKML / loadKMLFile resume after the await with {tracks, icons}.
LoadSucceeds(l) ==
    /\ loads[l].pc = "resolved"
    /\ \E w \in {handleKMLLoaded(World, arrays[Get(loads[l].result).tracks],
                                   arrays[Get(loads[l].result).icons])} : SetWorld(w)
    /\ loads' = [loads EXCEPT ![l].pc = "done", ![l].handled = TRUE]
    /\ UNCHANGED <<kmlParser, arrays, parseCalls>>
    /\ UNCHANGED <<coordVars, parseVars, prefVars>>

\* autoLoadKML / loadKMLFile resume after the await in their catch block.
LoadFails(l) ==
    /\ loads[l].pc = "rejected"
    /\ \E w \in {IF loads[l].kind = "url"
                   THEN autoLoadKMLCatch(World, loads[l].error[1])
                   ELSE loadKMLFileCatch(World, loads[l].error[1])} : SetWorld(w)
    /\ loads' = [loads EXCEPT ![l].pc = "failed"]
    /\ UNCHANGED <<kmlParser, arrays, parseCalls>>
    /\ UNCHANGED <<coordVars, parseVars, prefVars>>

\* Faulty variant of InitCompletes: init completes after a successful
\* auto-load only.
InitCompletesOnSuccess ==
    /\ loads[1].pc = "done"
    /\ ~app.isInitialized
    /\ app' = [app EXCEPT !.isInitialized = TRUE]
    /\ UNCHANGED <<map, ui, kmlParser, arrays, loads, parseCalls>>
    /\ UNCHANGED <<coordVars, parseVars, prefVars>>

\* init resumes after await this.autoLoadKML().
InitCompletes ==
    /\ loads[1].pc \in {"done", "failed"}
    /\ ~app.isInitialized
    /\ app' = [app EXCEPT !.isInitialized = TRUE]
    /\ UNCHANGED <<map, ui, kmlParser, arrays, loads, parseCalls>>
    /\ UNCHANGED <<coordVars, parseVars, prefVars>>

Next ==
    \/ KmlFileChange
    \/ \E l \in 1..Len(loads) : FetchRejects(l)
    \/ \E l \in 1..Len(loads), ok \in BOOLEAN : FetchResponds(l, ok)
    \/ \E l \in 1..Len(loads) : TextRejects(l)
    \/ \E l \in 1..Len(loads), kmlDoc \in LoadDocuments : TextResolves(l, kmlDoc)
    \/ \E l \in 1..Len(loads) : LoadSucceeds(l)
    \/ \E l \in 1..Len(loads) : LoadFails(l)
    \/ InitCompletes

Spec == Init /\ [][Next]_vars

\* The function that awaits a settled promise resumes: the runtime runs
\* every queued continuation, so a resumption that stays possible happens.
\* Nothing obliges a fetch or a read to settle.
Resumes == \E l \in 1..Len(loads) : LoadSucceeds(l) \/ LoadFails(l)

FairSpec == Spec /\ WF_vars(Resumes) /\ WF_vars(InitCompletes)

-----------------------------------------------------------------------------
(* Specification of the display preferences: the page imports config.js,   *)
(* which loads the stored record; the controls of the page then update the *)
(* preferences; the page is reloaded, with or without the stored record.   *)

\* Arguments of updateTrackStyle, updateMapOpacity and updateIconScale: a
\* colour, a width with an opacity; opacities between 0 and 100; a scale
\* between 0.5 and 3.
TrackStylePool ==
    { JObject([color |-> JString("#00ff00")]),
      JObject([weight |-> JNumber(Fin(5, 0)), opacity |-> JNumber(Fin(50, 0))]) }

MapOpacityPool == { JNumber(Zero), JNumber(Fin(40, 0)) }

IconScalePool == { JNumber(Fin(5, 1)) }

\* A record as an earlier page wrote it: the CONFIG of that page with the
\* given version, map opacity and icon scale.
StoredRecord(version, opacity, scale) ==
    JSONstringify(
        [DefaultConfig EXCEPT !.value.version = version,
                              !.value.map.value.opacity = opacity,
                              !.value.kml.value.icons.value.scale = scale])

\* The item found at import: none; the empty string; a text that is no
\* JSON; the text null; records of the current version (complete, and with
\* the icon scale only); a record of an earlier version; a record without
\* version; a record whose version is a number.
StoredPool ==
    { Absent,
      Some(NotJSON("")),
      Some(NotJSON("{oops")),
      Some(JSONstringify(JNull)),
      Some(StoredRecord(JString("1.2.0"), JNumber(Fin(40, 0)), JNumber(Fin(3, 0)))),
      Some(JSONstringify(JObject([version |-> JString("1.2.0"),
                                  kml |-> JObject([icons |->
                                      JObject([scale |-> JNumber(Fin(5, 1))])])]))),
      Some(StoredRecord(JString("1.1.0"), JNumber(Fin(40, 0)), JNumber(Fin(3, 0)))),
      Some(JSONstringify(JObject([map |-> JObject([opacity |-> JNumber(Fin(40, 0))])]))),
      Some(StoredRecord(JNumber(Fin(12, 1)), JNumber(Zero), JNumber(Fin(5, 1)))) }

PrefInit ==
    /\ CoordIdle
    /\ ParseIdle
    /\ AppIdle
    /\ config = DefaultConfig
    /\ localStorage \in StoredPool
    /\ page = [phase |-> "importing", console |-> <<>>]
    /\ runs = <<>>

\* Import of config.js: loadConfigFromStorage()
LoadConfigFromStorage ==
    /\ page.phase = "importing"
    /\ \E out \in {loadConfigFromStorage(config, localStorage)} :
           /\ config' = out.config
           /\ localStorage' = out.localStorage
           /\ page' = [phase |-> "running", console |-> out.console]
    /\ UNCHANGED runs
    /\ UNCHANGED <<coordVars, parseVars, appVars>>

\* updateTrackStyle(trackStyle); ok tells whether setItem succeeds.
UpdateTrackStyle(trackStyle, ok) ==
    /\ page.phase = "running"
    /\ \E out \in {updateTrackStyle(config, localStorage, trackStyle, ok)} :
           /\ config' = out.config
           /\ localStorage' = out.localStorage
    /\ UNCHANGED <<page, runs>>
    /\ UNCHANGED <<coordVars, parseVars, appVars>>

\* updateMapOpacity(opacity)
UpdateMapOpacity(opacity, ok) ==
    /\ page.phase = "running"
    /\ \E out \in {updateMapOpacity(config, localStorage, opacity, ok)} :
           /\ config' = out.config
           /\ localStorage' = out.localStorage
    /\ UNCHANGED <<page, runs>>
    /\ UNCHANGED <<coordVars, parseVars, appVars>>

\* updateIconScale(scale)
UpdateIconScale(scale, ok) ==
    /\ page.phase = "running"
    /\ \E out \in {updateIconScale(config, localStorage, scale, ok)} :
           /\ config' = out.config
           /\ localStorage' = out.localStorage
    /\ UNCHANGED <<page, runs>>
    /\ UNCHANGED <<coordVars, parseVars, appVars>>

\* The page is loaded again: a new CONFIG from the literal, the stored item
\* as it is.
Reload ==
    /\ page.phase = "running"
    /\ config' = DefaultConfig
    /\ page' = [phase |-> "importing", console |-> <<>>]
    /\ UNCHANGED <<localStorage, runs>>
    /\ UNCHANGED <<coordVars, parseVars, appVars>>

\* click on clearCache: removeItem, then the page is loaded again.
ClearCache ==
    /\ page.phase = "running"
    /\ localStorage' = Absent
    /\ config' = DefaultConfig
    /\ page' = [phase |-> "importing", console |-> <<>>]
    /\ UNCHANGED runs
    /\ UNCHANGED <<coordVars, parseVars, appVars>>

PrefNext ==
    \/ LoadConfigFromStorage
    \/ \E trackStyle \in TrackStylePool, ok \in BOOLEAN : UpdateTrackStyle(trackStyle, ok)
    \/ \E opacity \in MapOpacityPool, ok \in BOOLEAN : UpdateMapOpacity(opacity, ok)
    \/ \E scale \in IconScalePool, ok \in BOOLEAN : UpdateIconScale(scale, ok)
    \/ Reload
    \/ ClearCache

PrefSpec == PrefInit /\ [][PrefNext]_vars

-----------------------------------------------------------------------------
(* Specification of the map view: the controls of the page and the loads   *)
(* act on the MapManager through the RallyTrackViewer.  It starts when     *)
(* init has completed after a failed auto-load; every setItem succeeds.    *)

\* Documents of the loads: a track of two points beside a track of one
\* point and an icon with an image; a track of one point only; a track of
\* two points and an icon without image; nothing.
MapDocuments ==
    { Doc(<<MultiPointLineString, SampleLineString>>, <<SamplePoint>>),
      Doc(<<[coordinates |-> Some(<<"9", ",", "9">>), placemark |-> Absent]>>, <<>>),
      Doc(<<[coordinates |-> Some(<<"1", ",", "2", " ", "5", ",", "6">>),
             placemark |-> Some(PmBare)]>>,
          <<[coordinates |-> Some(<<"3", ",", "4">>), placemark |-> Some(PmBare)]>>),
      Doc(<<>>, <<>>) }

\* What the loads hand to handleKMLLoaded.
LoadedPool == {parseKML(NewKMLParser, kmlDoc) : kmlDoc \in MapDocuments}

\* Values of the map type selector; '3d' is named by changeMapType and is
\* not a key of CONFIG.map.mapTypes.
MapTypePool == {"osm", "satellite", "terrain", "none", "3d"}

MapInit ==
    /\ CoordIdle
    /\ ParseIdle
    /\ \E stored \in {Absent,
                      Some(StoredRecord(JString("1.2.0"), JNumber(Fin(40, 0)),
                                        JNumber(Fin(5, 1))))} :
       \E out \in {loadConfigFromStorage(DefaultConfig, stored)} :
           /\ config = out.config
           /\ localStorage = out.localStorage
           /\ page = [phase |-> "running", console |-> out.console]
    /\ runs = <<>>
    /\ app = [tracks |-> <<>>, icons |-> <<>>, isInitialized |-> TRUE]
    /\ map = MapManagerInit(NewMapManager)
    /\ ui = [trackCount |-> Absent, iconCount |-> Absent, messages |-> <<>>]
    /\ kmlParser = <<>>
    /\ arrays = <<>>
    /\ loads = <<>>
    /\ parseCalls = 0

\* RallyTrackViewer.refreshTracks and refreshIcons
refreshTracks(w) ==
    IF Len(w.app.tracks) > 0
    THEN [w EXCEPT !.map = displayTracks(w.map, w.app.tracks)] ELSE w

refreshIcons(w) ==
    IF Len(w.app.icons) > 0
    THEN [w EXCEPT !.map = displayIcons(w.map, w.app.icons)] ELSE w

\* A load resolves: handleKMLLoaded(tracks, icons).
HandleKMLLoaded(loaded) ==
    /\ \E w \in {handleKMLLoaded(World, loaded.tracks, loaded.icons)} : SetWorld(w)
    /\ UNCHANGED <<kmlParser, arrays, loads, parseCalls>>
    /\ UNCHANGED <<coordVars, parseVars, prefVars>>

\* change of showTracks: toggleTracks(checked)
ToggleTracks(visible) ==
    /\ map' = setTracksVisible(map, visible)
    /\ UNCHANGED <<app, ui, kmlParser, arrays, loads, parseCalls>>
    /\ UNCHANGED <<coordVars, parseVars, prefVars>>

\* change of showIcons: toggleIcons(checked)
ToggleIcons(visible) ==
    /\ map' = setIconsVisible(map, visible)
    /\ UNCHANGED <<app, ui, kmlParser, arrays, loads, parseCalls>>
    /\ UNCHANGED <<coordVars, parseVars, prefVars>>

\* change of mapType: changeMapType(value)
ChangeMapType(type) ==
    /\ map' = setMapType(map, type)
    /\ UNCHANGED <<app, ui, kmlParser, arrays, loads, parseCalls>>
    /\ UNCHANGED <<coordVars, parseVars, prefVars>>

\* input of mapOpacity: RallyTrackViewer.updateMapOpacity(opacity)
SetMapOpacity(opacity) ==
    /\ \E out \in {updateMapOpacity(config, localStorage, opacity, TRUE)} :
           /\ config' = out.config
           /\ localStorage' = out.localStorage
    /\ map' = setMapOpacity(map, opacity.value)
    /\ UNCHANGED <<app, ui, kmlParser, arrays, loads, parseCalls>>
    /\ UNCHANGED <<page, runs>>
    /\ UNCHANGED <<coordVars, parseVars>>

\* input of trackWidth: updateTrackWidth(width)
UpdateTrackWidth(width) ==
    /\ \E out \in {updateTrackStyle(config, localStorage, JObject([weight |-> width]), TRUE)} :
           /\ config' = out.config
           /\ localStorage' = out.localStorage
    /\ \E w \in {refreshTracks(World)} : SetWorld(w)
    /\ UNCHANGED <<kmlParser, arrays, loads, parseCalls>>
    /\ UNCHANGED <<page, runs>>
    /\ UNCHANGED <<coordVars, parseVars>>

\* input of iconSize: updateIconSize(scale).  refreshIcons reads the CONFIG
\* that updateIconScale has written.
UpdateIconSize(scale) ==
    /\ \E out \in {updateIconScale(config, localStorage, scale, TRUE)} :
           /\ config' = out.config
           /\ localStorage' = out.localStorage
    /\ \E w \in {refreshIcons(World)} : SetWorld(w)
    /\ UNCHANGED <<kmlParser, arrays, loads, parseCalls>>
    /\ UNCHANGED <<page, runs>>
    /\ UNCHANGED <<coordVars, parseVars>>

\* MapManager.clearAll()
ClearAll ==
    /\ map' = clearAll(map)
    /\ UNCHANGED <<app, ui, kmlParser, arrays, loads, parseCalls>>
    /\ UNCHANGED <<coordVars, parseVars, prefVars>>

MapNext ==
    \/ \E loaded \in LoadedPool : HandleKMLLoaded(loaded)
    \/ \E visible \in BOOLEAN : ToggleTracks(visible)
    \/ \E visible \in BOOLEAN : ToggleIcons(visible)
    \/ \E type \in MapTypePool : ChangeMapType(type)
    \/ \E opacity \in {JNumber(Zero), JNumber(Fin(40, 0)), JNumber(Fin(100, 0))} :
           SetMapOpacity(opacity)
    \/ \E width \in {JNumber(Fin(5, 0))} : UpdateTrackWidth(width)
    \/ \E scale \in {JNumber(Fin(5, 1)), JNumber(Fin(2, 0))} : UpdateIconSize(scale)
    \/ ClearAll

MapSpec == MapInit /\ [][MapNext]_vars

-----------------------------------------------------------------------------
(* Specification of the extraction beside the display preferences: two     *)
(* parseKML runs, each at any moment of a page whose preferences are       *)
(* loaded and updated; each run is kept with the CONFIG and the stored     *)
(* item it ran under and with the markers displayIcons makes of its icons. *)

Runs == {1, 2}

\* Documents of the runs: an icon whose inline IconStyle has an image and a
\* scale, beside a track; an icon whose style is referenced, with a track.
RunDocuments ==
    { Doc(<<SampleLineString>>,
          <<[coordinates |-> Some(<<"5", ",", "6", ",", "7">>),
             placemark |-> Some(PmInlineStyle)]>>),
      OtherDocument }

ExtractInit ==
    /\ CoordIdle
    /\ ParseIdle
    /\ AppIdle
    /\ config = DefaultConfig
    /\ localStorage \in {Absent,
                         Some(StoredRecord(JString("1.2.0"), JNumber(Zero),
                                           JNumber(Fin(3, 0))))}
    /\ page = [phase |-> "importing", console |-> <<>>]
    /\ runs = [r \in Runs |-> Absent]

\* Run r: new KMLParser().parseKML(kmlDoc), and displayIcons of the icons.
RunParseKML(r, kmlDoc) ==
    /\ page.phase = "running"
    /\ ~IsPresent(runs[r])
    /\ \E result \in {parseKML(NewKMLParser, kmlDoc)} :
           runs' = [runs EXCEPT ![r] =
                       Some([config |-> config, stored |-> localStorage,
                             kmlDoc |-> kmlDoc, result |-> result,
                             markers |-> displayIcons(NewMapManager,
                                                      result.icons).iconLayerGroup])]
    /\ UNCHANGED <<config, localStorage, page>>
    /\ UNCHANGED <<coordVars, parseVars, appVars>>

ExtractNext ==
    \/ LoadConfigFromStorage
    \/ \E trackStyle \in {JObject([color |-> JString("#00ff00")])} :
           UpdateTrackStyle(trackStyle, TRUE)
    \/ \E opacity \in {JNumber(Fin(40, 0))} : UpdateMapOpacity(opacity, TRUE)
    \/ \E scale \in {JNumber(Fin(5, 1))} : UpdateIconScale(scale, TRUE)
    \/ \E r \in Runs, kmlDoc \in RunDocuments : RunParseKML(r, kmlDoc)

ExtractSpec == ExtractInit /\ [][ExtractNext]_vars

-----------------------------------------------------------------------------
(* Properties of the coordinate grammar *)

\* Value of each field text of FieldPool, written out by hand: the number a
\* reader of the decimal text expects.
FieldValue(f) ==
    CASE f = <<"1">> -> [tag |-> "fin", m |-> 1, e |-> 0]
      [] f = <<"1", "7", ".", "6", "3">> -> [tag |-> "fin", m |-> 1763, e |-> 2]
      [] f = <<"-", "4", "7", ".", "5", "0">> -> [tag |-> "fin", m |-> 0 - 475, e |-> 1]
      [] f = <<"1", "2", "0">> -> [tag |-> "fin", m |-> 120, e |-> 0]
      [] f = <<".", "5">> -> [tag |-> "fin", m |-> 5, e |-> 1]
      [] f = <<"2", "x">> -> [tag |-> "fin", m |-> 2, e |-> 0]
      [] f = <<"Infinity">> -> [tag |-> "Inf", m |-> 0, e |-> 0]
      [] f = <<"-", "Infinity">> -> [tag |-> "-Inf", m |-> 0, e |-> 0]
      [] OTHER -> [tag |-> "NaN", m |-> 0, e |-> 0]

\* A field is non-numeric when it has no numeric prefix (parseFloat gives NaN).
NonNumeric(field) == isNaN(parseFloat(field))

\* A tuple is valid when it has at least two fields and its longitude,
\* latitude and (if present) altitude fields are numeric.
ValidTuple(fields) ==
    /\ Len(fields) >= 2
    /\ ~NonNumeric(fields[1])
    /\ ~NonNumeric(fields[2])
    /\ Len(fields) > 2 => ~NonNumeric(fields[3])

TuplePoint(fields) ==
    [lon |-> parseFloat(fields[1]),
     lat |-> parseFloat(fields[2]),
     alt |-> IF Len(fields) > 2 THEN parseFloat(fields[3]) ELSE Zero]

\* The points of the valid tuples of a tuple list, in the order of the list.
ValidPoints(tuples) ==
    Flatten([k \in 1..Len(tuples) |->
                IF ValidTuple(tuples[k]) THEN <<TuplePoint(tuples[k])>> ELSE <<>>])

\* C7: in parseCoordinates a tuple whose longitude or latitude field is
\* non-numeric is excluded, and the result is exactly the sequence of the
\* valid tuples in input order: an invalid tuple neither removes, duplicates
\* nor reorders its valid neighbours and never aborts the parse.
C7_InvalidTuplesSkippedInOrder ==
    cpc = "parsed" =>
        /\ parsedPoints = ValidPoints(srcTuples)
        /\ \A k \in 1..Len(srcTuples) :
              (Len(srcTuples[k]) >= 2
                 /\ (NonNumeric(srcTuples[k][1]) \/ NonNumeric(srcTuples[k][2])))
              => parsedPoints =
                    ValidPoints(SubSeq(srcTuples, 1, k - 1)
                                  \o SubSeq(srcTuples, k + 1, Len(srcTuples)))

\* An invalid tuple stands between two different valid tuples and both
\* neighbours, and nothing else, are in the result.
C7_Witness ==
    /\ cpc = "parsed"
    /\ Len(srcTuples) = 3
    /\ NonNumeric(srcTuples[2][1])
    /\ ValidTuple(srcTuples[1]) /\ ValidTuple(srcTuples[3])
    /\ srcTuples[1] # srcTuples[3]
    /\ parsedPoints = <<TuplePoint(srcTuples[1]), TuplePoint(srcTuples[3])>>

\* C9: parseCoordinates maps an accepted tuple f0,f1[,f2] to lon = f0,
\* lat = f1 and alt = f2 when a third field is present, alt = 0 otherwise;
\* a tuple with fewer than 2 fields is dropped; the text
\* 17.63,47.69,120 17.64,47.70 gives (47.69, 17.63, 120) then (47.70, 17.64, 0).
C9_FieldMapping ==
    cpc = "parsed" =>
        /\ (Len(srcTuples) = 1 /\ \A k \in 1..Len(srcTuples[1]) : srcTuples[1][k] \in FieldPool) =>
              LET f == srcTuples[1]
              IN  /\ Len(f) < 2 => parsedPoints = <<>>
                  /\ Len(parsedPoints) <= 1
                  /\ parsedPoints # <<>> =>
                        /\ parsedPoints[1].lon = FieldValue(f[1])
                        /\ parsedPoints[1].lat = FieldValue(f[2])
                        /\ parsedPoints[1].alt =
                              IF Len(f) > 2 THEN FieldValue(f[3])
                              ELSE [tag |-> "fin", m |-> 0, e |-> 0]
        /\ srcTuples = ExampleTuples =>
              parsedPoints =
                 << [lat |-> [tag |-> "fin", m |-> 4769, e |-> 2],
                     lon |-> [tag |-> "fin", m |-> 1763, e |-> 2],
                     alt |-> [tag |-> "fin", m |-> 120, e |-> 0]],
                    [lat |-> [tag |-> "fin", m |-> 477, e |-> 1],
                     lon |-> [tag |-> "fin", m |-> 1764, e |-> 2],
                     alt |-> [tag |-> "fin", m |-> 0, e |-> 0]] >>

\* The example text has been parsed into its two points.
C9_Witness ==
    /\ cpc = "parsed"
    /\ srcTuples = ExampleTuples
    /\ Len(parsedPoints) = 2
    /\ parsedPoints[2].alt = Zero


-----------------------------------------------------------------------------
(* Properties of the extraction *)

Last(q) == q[Len(q)]

HasReturned(p) == returned[p] # NoResult

\* The document of the last parseKML call of instance p.
LastDoc(p) == kmlDocs[Last(parsed[p])]

\* The node has a coordinates child whose text parses to at least one point.
NodeHasPoints(node) ==
    IsPresent(node.coordinates) /\ parseCoordinates(Get(node.coordinates)) # <<>>

\* Zero-based positions, in document order, of the nodes that have points.
RECURSIVE PositionsWithPoints(_, _)
PositionsWithPoints(nodes, i) ==
    IF i >= Len(nodes) THEN <<>>
    ELSE (IF NodeHasPoints(nodes[i + 1]) THEN <<i>> ELSE <<>>)
           \o PositionsWithPoints(nodes, i + 1)

\* C1: parseKML is deterministic: two calls on the same tree, on the same or
\* on different KMLParser instances and whatever was parsed before, return
\* structurally equal {tracks, icons}.
C1_ParseDeterministic ==
    \A p \in Parsers, q \in Parsers :
        (HasReturned(p) /\ HasReturned(q) /\ LastDoc(p) = LastDoc(q))
            => returned[p] = returned[q]

\* The long-lived instance parsed the other document and then the document
\* under test, a new instance parsed only the latter, and both returned the
\* same non-empty result.
C1_Witness ==
    /\ parsed[1] = <<2, 1>>
    /\ parsed[2] = <<1>>
    /\ kmlDocs[1] # kmlDocs[2]
    /\ returned[1] = returned[2]
    /\ Get(returned[1]).tracks # <<>>
    /\ Get(returned[1]).icons # <<>>

\* C4: every parseKML call starts from empty buffers and fully replaces the
\* previous extraction: after parseKML(A) then parseKML(B) the returned
\* result and getTracks()/getIcons() hold entities of B only.
C4_ParseReplacesPrevious ==
    \A p \in Parsers :
        HasReturned(p) =>
            LET doc == LastDoc(p)
                r == Get(returned[p])
            IN  /\ getTracks(parsers[p]) = r.tracks
                /\ getIcons(parsers[p]) = r.icons
                /\ Len(r.tracks) <= Len(doc.lineStrings)
                /\ Len(r.icons) <= Len(doc.points)
                /\ \A k \in 1..Len(r.tracks) :
                      /\ r.tracks[k].originalIndex < Len(doc.lineStrings)
                      /\ NodeHasPoints(doc.lineStrings[r.tracks[k].originalIndex + 1])
                      /\ r.tracks[k].points =
                            parseCoordinates(
                               Get(doc.lineStrings[r.tracks[k].originalIndex + 1].coordinates))
                      /\ \A j \in 1..Len(r.tracks) :
                            j # k => r.tracks[j].originalIndex # r.tracks[k].originalIndex
                /\ \A k \in 1..Len(r.icons) :
                      /\ r.icons[k].originalIndex < Len(doc.points)
                      /\ NodeHasPoints(doc.points[r.icons[k].originalIndex + 1])
                      /\ r.icons[k].position =
                            parseCoordinates(
                               Get(doc.points[r.icons[k].originalIndex + 1].coordinates))[1]
                      /\ \A j \in 1..Len(r.icons) :
                            j # k => r.icons[j].originalIndex # r.icons[k].originalIndex

\* The instance parsed the other document, which has tracks and icons, and
\* then a document with no LineString and no Point: its buffers are empty.
C4_Witness ==
    /\ parsed[1] = <<2, 1>>
    /\ kmlDocs[1].lineStrings = <<>> /\ kmlDocs[1].points = <<>>
    /\ kmlDocs[2].lineStrings # <<>> /\ kmlDocs[2].points # <<>>
    /\ getTracks(parsers[1]) = <<>>
    /\ getIcons(parsers[1]) = <<>>

\* C5: a Track (Icon) is emitted for a LineString (Point) node if and only if
\* the node has a coordinates child whose text parses to at least one point;
\* other nodes contribute no entry and no placeholder, so every Track has at
\* least one point and every Icon has a position.
C5_EmittedIffHasPoints ==
    \A p \in Parsers :
        HasReturned(p) =>
            LET doc == LastDoc(p)
                r == Get(returned[p])
            IN  /\ \A i \in 0..(Len(doc.lineStrings) - 1) :
                      NodeHasPoints(doc.lineStrings[i + 1])
                         <=> (\E k \in 1..Len(r.tracks) : r.tracks[k].originalIndex = i)
                /\ \A i \in 0..(Len(doc.points) - 1) :
                      NodeHasPoints(doc.points[i + 1])
                         <=> (\E k \in 1..Len(r.icons) : r.icons[k].originalIndex = i)
                /\ \A k \in 1..Len(r.tracks) : Len(r.tracks[k].points) >= 1
                /\ \A k \in 1..Len(r.icons) :
                      /\ DOMAIN r.icons[k].position = {"lat", "lon", "alt"}
                      /\ ~isNaN(r.icons[k].position.lat)
                      /\ ~isNaN(r.icons[k].position.lon)

\* A document with nodes of the four skipped kinds (no coordinates, empty,
\* white space, invalid tuple) among its LineStrings gave a single track.
C5_Witness ==
    /\ HasReturned(1)
    /\ Len(LastDoc(1).lineStrings) = 3
    /\ ~IsPresent(LastDoc(1).lineStrings[1].coordinates)
    /\ LastDoc(1).lineStrings[2].coordinates = Some(<<"x", ",", "1">>)
    /\ NodeHasPoints(LastDoc(1).lineStrings[3])
    /\ Len(Get(returned[1]).tracks) = 1

\* C6: the originalIndex of every emitted Track (Icon) is the zero-based
\* position of its node among all LineString (Point) nodes in document
\* order, skipped nodes included: 3 LineStrings with the 2nd empty give
\* originalIndex 0 and 2.
C6_OriginalIndexIsNodePosition ==
    \A p \in Parsers :
        HasReturned(p) =>
            LET doc == LastDoc(p)
                r == Get(returned[p])
            IN  /\ [k \in 1..Len(r.tracks) |-> r.tracks[k].originalIndex]
                      = PositionsWithPoints(doc.lineStrings, 0)
                /\ [k \in 1..Len(r.icons) |-> r.icons[k].originalIndex]
                      = PositionsWithPoints(doc.points, 0)

\* Three LineStrings, the second with empty coordinates: two tracks with
\* originalIndex 0 and 2.
C6_Witness ==
    /\ HasReturned(1)
    /\ Len(LastDoc(1).lineStrings) = 3
    /\ LastDoc(1).lineStrings[2].coordinates = Some(<<>>)
    /\ Len(Get(returned[1]).tracks) = 2
    /\ Get(returned[1]).tracks[1].originalIndex = 0
    /\ Get(returned[1]).tracks[2].originalIndex = 2

\* C8 (as claimed): every Point of every emitted Track and every Icon position
\* has finite lat, lon and alt.
C8_AllPointsFinite ==
    \A p \in Parsers :
        HasReturned(p) =>
            LET r == Get(returned[p])
            IN  /\ \A k \in 1..Len(r.tracks) :
                      \A n \in 1..Len(r.tracks[k].points) :
                          /\ isFinite(r.tracks[k].points[n].lat)
                          /\ isFinite(r.tracks[k].points[n].lon)
                          /\ isFinite(r.tracks[k].points[n].alt)
                /\ \A k \in 1..Len(r.icons) :
                      /\ isFinite(r.icons[k].position.lat)
                      /\ isFinite(r.icons[k].position.lon)
                      /\ isFinite(r.icons[k].position.alt)

\* The synthetic name of the node at zero-based position i.
SyntheticName(prefix, i) ==
    prefix \o (CASE i = 0 -> <<"1">> [] i = 1 -> <<"2">> [] i = 2 -> <<"3">>
                 [] i = 3 -> <<"4">> [] i = 4 -> <<"5">> [] i = 5 -> <<"6">>)

\* C10: a LineString or Point with valid coordinates and no enclosing
\* Placemark is still emitted, named 'Track {i+1}' or 'Point {i+1}' for its
\* encounter index i (not the count of entries emitted so far), with
\* description and style reference absent.
C10_NoPlacemarkDefaults ==
    \A p \in Parsers :
        HasReturned(p) =>
            LET doc == LastDoc(p)
                r == Get(returned[p])
            IN  /\ \A i \in 0..(Len(doc.lineStrings) - 1) :
                      (NodeHasPoints(doc.lineStrings[i + 1])
                          /\ ~IsPresent(doc.lineStrings[i + 1].placemark))
                      => \E k \in 1..Len(r.tracks) :
                            /\ r.tracks[k].originalIndex = i
                            /\ r.tracks[k].name = SyntheticName(<<"T", "r", "a", "c", "k", " ">>, i)
                            /\ r.tracks[k].description = Absent
                            /\ r.tracks[k].style = Absent
                /\ \A i \in 0..(Len(doc.points) - 1) :
                      (NodeHasPoints(doc.points[i + 1])
                          /\ ~IsPresent(doc.points[i + 1].placemark))
                      => \E k \in 1..Len(r.icons) :
                            /\ r.icons[k].originalIndex = i
                            /\ r.icons[k].name = SyntheticName(<<"P", "o", "i", "n", "t", " ">>, i)
                            /\ r.icons[k].description = Absent
                            /\ r.icons[k].style = Absent

\* The first emitted track comes from the third LineString, which has no
\* Placemark, and is named Track 3.
C10_Witness ==
    /\ HasReturned(1)
    /\ Len(LastDoc(1).lineStrings) = 3
    /\ ~IsPresent(LastDoc(1).lineStrings[3].placemark)
    /\ Len(Get(returned[1]).tracks) = 1
    /\ Get(returned[1]).tracks[1].name = <<"T", "r", "a", "c", "k", " ", "3">>
    /\ Get(returned[1]).tracks[1].description = Absent

-----------------------------------------------------------------------------
(* Properties of the resolution of icon styles *)

Num(m, e) == [tag |-> "fin", m |-> m, e |-> e]

\* The URL an href text stands for, written out for the texts in use.
HrefUrl(t) ==
    CASE t = <<" ", "i", "\n">> -> <<"i">>
      [] t = <<" ">> -> <<>>
      [] OTHER -> t

\* The number a scale text stands for (none when it does not start with a
\* number), written out for the texts in use: 32 times it and 16 times it.
ScaleSize(t) ==
    CASE t = <<"2">> -> Some(<<Num(64, 0), Num(64, 0)>>)
      [] t = <<"2", "x">> -> Some(<<Num(64, 0), Num(64, 0)>>)
      [] t = <<"1", ".", "5">> -> Some(<<Num(48, 0), Num(48, 0)>>)
      [] OTHER -> Absent

ScaleAnchor(t) ==
    CASE t = <<"2">> -> Some(<<Num(32, 0), Num(32, 0)>>)
      [] t = <<"2", "x">> -> Some(<<Num(32, 0), Num(32, 0)>>)
      [] t = <<"1", ".", "5">> -> Some(<<Num(24, 0), Num(24, 0)>>)
      [] OTHER -> Absent

NoIconFields == [iconUrl |-> Absent, iconSize |-> Absent, iconAnchor |-> Absent]

\* The three fields one IconStyle element, if there is one, stands for.
IconFieldsOf(iconStyle) ==
    IF ~IsPresent(iconStyle) THEN NoIconFields
    ELSE LET is == Get(iconStyle)
         IN  [iconUrl |-> IF IsPresent(is.Icon) /\ IsPresent(Get(is.Icon).href)
                          THEN Some(HrefUrl(Get(Get(is.Icon).href))) ELSE Absent,
              iconSize |-> IF IsPresent(is.scale) THEN ScaleSize(Get(is.scale)) ELSE Absent,
              iconAnchor |-> IF IsPresent(is.scale) THEN ScaleAnchor(Get(is.scale))
                             ELSE Absent]

\* The fields of a where b does not give the field.
FilledFrom(a, b) ==
    [iconUrl |-> IF IsPresent(b.iconUrl) THEN b.iconUrl ELSE a.iconUrl,
     iconSize |-> IF IsPresent(b.iconSize) THEN b.iconSize ELSE a.iconSize,
     iconAnchor |-> IF IsPresent(b.iconAnchor) THEN b.iconAnchor ELSE a.iconAnchor]

IconFields(icon) ==
    [iconUrl |-> icon.iconUrl, iconSize |-> icon.iconSize, iconAnchor |-> icon.iconAnchor]

\* The inline IconStyle of a Placemark, if there is one.
InlineIconStyle(pm) ==
    IF IsPresent(pm.Style) THEN Get(pm.Style).IconStyle ELSE Absent

\* The styleUrl text trimmed and without a leading '#', for the texts in use.
LeadingHashStripped(t) ==
    CASE t = <<"#", "s", "1">> -> <<"s", "1">>
      [] t = <<" ", "#", "s", "1", "\n">> -> <<"s", "1">>
      [] t = <<"#", "#", "s", "1">> -> <<"#", "s", "1">>
      [] t = <<"#", "n", "o", "p", "e">> -> <<"n", "o", "p", "e">>
      [] OTHER -> t

\* The styleUrl text trimmed and without its first '#', for the texts in use.
FirstHashRemoved(t) ==
    CASE t = <<"s", "#", "1">> -> <<"s", "1">>
      [] OTHER -> LeadingHashStripped(t)

\* The first element of the document with the given id, if there is one.
ElementWithId(ids, id) ==
    IF \E n \in 1..Len(ids) : ids[n].id = id
    THEN Some(ids[CHOOSE n \in 1..Len(ids) :
                     ids[n].id = id /\ \A j \in 1..(n - 1) : ids[j].id # id])
    ELSE Absent

\* The IconStyle of the element with the given id, if both exist.
IconStyleWithId(ids, id) ==
    IF IsPresent(ElementWithId(ids, id)) THEN Get(ElementWithId(ids, id)).IconStyle
    ELSE Absent

\* The Point node an icon of the result r of document doc comes from.
NodeOf(doc, icon) == doc.points[icon.originalIndex + 1]

\* The referenced style is turned to: the inline style gave no URL (or an
\* empty one) and there is a styleUrl.
ReferenceUsed(pm) ==
    /\ IsPresent(pm.styleUrl)
    /\ ~Truthy(IconFieldsOf(InlineIconStyle(pm)).iconUrl)

\* C11 (as claimed): when a placemark has an inline Style with an IconStyle
\* and a styleUrl that resolves to a Style, iconUrl, iconSize and iconAnchor
\* come from the inline IconStyle only, whatever it contains.
C11_InlineOnly ==
    \A p \in Parsers :
        HasReturned(p) =>
            \A k \in 1..Len(Get(returned[p]).icons) :
                LET icon == Get(returned[p]).icons[k]
                    node == NodeOf(LastDoc(p), icon)
                IN  (/\ IsPresent(node.placemark)
                     /\ IsPresent(InlineIconStyle(Get(node.placemark)))
                     /\ IsPresent(Get(node.placemark).styleUrl)
                     /\ IsPresent(ElementWithId(LastDoc(p).ids,
                            LeadingHashStripped(Get(Get(node.placemark).styleUrl)))))
                    => IconFields(icon) = IconFieldsOf(InlineIconStyle(Get(node.placemark)))

\* C12 (as claimed): when the referenced style is used, the id looked up is
\* the trimmed styleUrl text with a leading '#' stripped and nothing else
\* changed, so the fields are those of the element with that id.
C12_LeadingHashOnly ==
    \A p \in Parsers :
        HasReturned(p) =>
            \A k \in 1..Len(Get(returned[p]).icons) :
                LET icon == Get(returned[p]).icons[k]
                    node == NodeOf(LastDoc(p), icon)
                IN  (IsPresent(node.placemark) /\ ReferenceUsed(Get(node.placemark)))
                    => IconFields(icon) =
                          FilledFrom(IconFieldsOf(InlineIconStyle(Get(node.placemark))),
                                     IconFieldsOf(IconStyleWithId(LastDoc(p).ids,
                                        LeadingHashStripped(
                                           Get(Get(node.placemark).styleUrl)))))

\* The IconStyle the reference of a Placemark leads to, if the referenced
\* style is turned to and the lookup finds an element that has one.
ReferencedIconStyle(pm, ids) ==
    IF ReferenceUsed(pm)
    THEN IconStyleWithId(ids, FirstHashRemoved(Get(pm.styleUrl)))
    ELSE Absent

HasNumericScale(iconStyle) ==
    /\ IsPresent(iconStyle)
    /\ IsPresent(Get(iconStyle).scale)
    /\ IsPresent(ScaleSize(Get(Get(iconStyle).scale)))

\* The IconStyle whose scale was used for the size: the referenced one if it
\* was read and has a numeric scale, else the inline one.
SizeIconStyle(pm, ids) ==
    IF HasNumericScale(ReferencedIconStyle(pm, ids))
    THEN ReferencedIconStyle(pm, ids) ELSE InlineIconStyle(pm)

\* The document of the example: a Point at 17.63,47.69 with styleUrl #s1,
\* and the Style s1 with href icon.png and scale 2.
ExampleDocument ==
    DocWithIds(<<>>, <<StyledPoint(Some(<<"#", "s", "1">>), Absent)>>,
               <<StyleElement(<<"s", "1">>, Some(IconPng), Some(<<"2">>))>>)

\* C13: whenever an Icon's iconSize is present it equals (32*s, 32*s) for the
\* numeric scale s of the IconStyle that was used, and iconAnchor is present
\* and is half of it; iconSize and iconAnchor are both present or both
\* absent; scale 2 with href icon.png in the referenced style s1 gives
\* iconUrl 'icon.png', iconSize (64,64), iconAnchor (32,32).
C13_SizeFromScale ==
    \A p \in Parsers :
        HasReturned(p) =>
            /\ \A k \in 1..Len(Get(returned[p]).icons) :
                  LET icon == Get(returned[p]).icons[k]
                      node == NodeOf(LastDoc(p), icon)
                  IN  /\ IsPresent(icon.iconSize) <=> IsPresent(icon.iconAnchor)
                      /\ IsPresent(icon.iconSize) =>
                            /\ IsPresent(node.placemark)
                            /\ LET is == SizeIconStyle(Get(node.placemark), LastDoc(p).ids)
                               IN  /\ HasNumericScale(is)
                                   /\ icon.iconSize = ScaleSize(Get(Get(is).scale))
                                   /\ icon.iconAnchor = ScaleAnchor(Get(Get(is).scale))
            /\ LastDoc(p) = ExampleDocument =>
                  /\ Len(Get(returned[p]).icons) = 1
                  /\ IconFields(Get(returned[p]).icons[1]) =
                        [iconUrl |-> Some(IconPng),
                         iconSize |-> Some(<<Num(64, 0), Num(64, 0)>>),
                         iconAnchor |-> Some(<<Num(32, 0), Num(32, 0)>>)]

\* The example with scale 2 and href icon.png in the referenced style s1 has
\* been parsed into its icon.
C13_Witness ==
    /\ HasReturned(1)
    /\ LastDoc(1) = ExampleDocument
    /\ Get(returned[1]).icons[1].iconUrl = Some(IconPng)
    /\ Get(returned[1]).icons[1].iconSize = Some(<<Num(64, 0), Num(64, 0)>>)
    /\ Get(returned[1]).icons[1].iconAnchor = Some(<<Num(32, 0), Num(32, 0)>>)

\* C14: if the IconStyle used for an icon (each one that was read, when the
\* inline and the referenced one both were) has no scale element or a scale
\* whose text is not numeric, iconSize and iconAnchor are both absent, while
\* an iconUrl found in that IconStyle is still reported.
C14_NoScaleNoSize ==
    \A p \in Parsers :
        HasReturned(p) =>
            \A k \in 1..Len(Get(returned[p]).icons) :
                LET icon == Get(returned[p]).icons[k]
                    node == NodeOf(LastDoc(p), icon)
                IN  IsPresent(node.placemark) =>
                      LET pm == Get(node.placemark)
                          inl == InlineIconStyle(pm)
                          ref == ReferencedIconStyle(pm, LastDoc(p).ids)
                      IN  ((IsPresent(inl) \/ IsPresent(ref))
                             /\ ~HasNumericScale(inl) /\ ~HasNumericScale(ref))
                          => /\ icon.iconSize = Absent
                             /\ icon.iconAnchor = Absent
                             /\ icon.iconUrl =
                                   FilledFrom(IconFieldsOf(inl), IconFieldsOf(ref)).iconUrl

\* Icons whose IconStyle has an href and no numeric scale: an inline one
\* with no scale element, and a referenced one after an inline IconStyle
\* whose scale is no number.
C14_Witness ==
    /\ HasReturned(1)
    /\ Len(Get(returned[1]).icons) = 1
    /\ Len(LastDoc(1).points) = 1
    /\ IsPresent(LastDoc(1).points[1].placemark)
    /\ LET pm == Get(LastDoc(1).points[1].placemark)
       IN  /\ IsPresent(InlineIconStyle(pm))
           /\ Get(InlineIconStyle(pm)).scale = Some(<<"x">>)
           /\ pm.styleUrl = Some(<<"s", "1">>)
    /\ LastDoc(1).ids = <<StyleElement(<<"s", "1">>, Some(IconPng), Absent)>>
    /\ Get(returned[1]).icons[1].iconUrl = Some(IconPng)
    /\ Get(returned[1]).icons[1].iconSize = Absent
    /\ Get(returned[1]).icons[1].iconAnchor = Absent

\* The Point nodes of a document that have points, as zero-based positions.
PointsWithPoints(doc) == {i \in 0..(Len(doc.points) - 1) : NodeHasPoints(doc.points[i + 1])}

\* The icon of the result r that comes from the Point at position i.
IconsAt(r, i) == {k \in 1..Len(r.icons) : r.icons[k].originalIndex = i}

FirstPointOf(t) ==
    CASE t = <<"7", ",", "8", " ", "1", ",", "2">> ->
            Some([lat |-> Num(8, 0), lon |-> Num(7, 0), alt |-> Num(0, 0)])
      [] t = <<"x", "\n", "5", ",", "6", ",", "7", " ", "1", ",", "2">> ->
            Some([lat |-> Num(6, 0), lon |-> Num(5, 0), alt |-> Num(7, 0)])
      [] t = <<" ", "3", ",", "4", " ", "9", " ", "1", ",", "2", " ">> ->
            Some([lat |-> Num(4, 0), lon |-> Num(3, 0), alt |-> Num(0, 0)])
      [] t = <<"3", ",", "4">> ->
            Some([lat |-> Num(4, 0), lon |-> Num(3, 0), alt |-> Num(0, 0)])
      [] t = ExampleCoordinates ->
            Some([lat |-> Num(4769, 2), lon |-> Num(1763, 2), alt |-> Num(0, 0)])
      [] OTHER -> Absent

\* C16: an Icon's position is the first point parsed from its Point node's
\* coordinates text (the first valid tuple); later coordinates of the text
\* are ignored and never produce a second Icon.
C16_PositionIsFirstPoint ==
    \A p \in Parsers :
        HasReturned(p) =>
            LET doc == LastDoc(p)
                r == Get(returned[p])
            IN  /\ Len(r.icons) <= Len(doc.points)
                /\ \A i \in 0..(Len(doc.points) - 1) :
                      /\ Cardinality(IconsAt(r, i)) <= 1
                      /\ (IsPresent(doc.points[i + 1].coordinates)
                            /\ IsPresent(FirstPointOf(Get(doc.points[i + 1].coordinates))))
                         => \E k \in IconsAt(r, i) :
                               r.icons[k].position =
                                  Get(FirstPointOf(Get(doc.points[i + 1].coordinates)))

\* Two Points, the first with an invalid tuple before two valid ones and the
\* second with two tuples, gave two icons at (6, 5, 7) and (8, 7, 0).
C16_Witness ==
    /\ HasReturned(1)
    /\ Len(LastDoc(1).points) = 2
    /\ LastDoc(1).points[1].coordinates =
          Some(<<"x", "\n", "5", ",", "6", ",", "7", " ", "1", ",", "2">>)
    /\ LastDoc(1).points[2].coordinates = Some(<<"7", ",", "8", " ", "1", ",", "2">>)
    /\ Len(Get(returned[1]).icons) = 2
    /\ Get(returned[1]).icons[1].position =
          [lat |-> Num(6, 0), lon |-> Num(5, 0), alt |-> Num(7, 0)]
    /\ Get(returned[1]).icons[2].position =
          [lat |-> Num(8, 0), lon |-> Num(7, 0), alt |-> Num(0, 0)]

IsOption(o) == o = Absent \/ (Len(o) = 1 /\ DOMAIN o = {1})

\* The LineString nodes of a document that have points.
LineStringsWithPoints(doc) ==
    {i \in 0..(Len(doc.lineStrings) - 1) : NodeHasPoints(doc.lineStrings[i + 1])}

\* C17: parseKML never fails on per-element defects: whatever is missing or
\* malformed in the nodes, every call ends with a {tracks, icons} result that
\* holds an entry for every node that has points, with every field of every
\* entry set, the optional ones to a value or to absent.
C17_NeverFails ==
    \A p \in Parsers :
        parsed[p] # <<>> =>
            /\ HasReturned(p)
            /\ DOMAIN Get(returned[p]) = {"tracks", "icons"}
            /\ LET doc == LastDoc(p)
                   r == Get(returned[p])
               IN  /\ Len(r.tracks) = Cardinality(LineStringsWithPoints(doc))
                   /\ Len(r.icons) = Cardinality(PointsWithPoints(doc))
                   /\ \A k \in 1..Len(r.tracks) :
                         /\ DOMAIN r.tracks[k] =
                               {"name", "description", "points", "originalIndex", "style"}
                         /\ r.tracks[k].name # <<>>
                         /\ IsOption(r.tracks[k].description)
                         /\ IsOption(r.tracks[k].style)
                   /\ \A k \in 1..Len(r.icons) :
                         /\ DOMAIN r.icons[k] =
                               {"name", "description", "position", "originalIndex",
                                "iconUrl", "iconSize", "iconAnchor", "style"}
                         /\ r.icons[k].name # <<>>
                         /\ IsOption(r.icons[k].description)
                         /\ IsOption(r.icons[k].style)
                         /\ IsOption(r.icons[k].iconUrl)
                         /\ IsOption(r.icons[k].iconSize)
                         /\ IsOption(r.icons[k].iconAnchor)

\* A document whose LineStrings and Points are a node without Placemark and a
\* node with an unresolved style reference and an empty IconStyle was parsed
\* into two tracks and two icons.
C17_Witness ==
    /\ HasReturned(1)
    /\ Len(LastDoc(1).lineStrings) = 2
    /\ Len(LastDoc(1).points) = 2
    /\ ~IsPresent(LastDoc(1).points[2].placemark)
    /\ IsPresent(LastDoc(1).points[1].placemark)
    /\ Get(LastDoc(1).points[1].placemark).styleUrl = Some(<<"#", "n", "o", "p", "e">>)
    /\ Len(Get(returned[1]).tracks) = 2
    /\ Len(Get(returned[1]).icons) = 2
    /\ Get(returned[1]).icons[1].iconUrl = Absent
    /\ Get(returned[1]).icons[2].name = <<"P", "o", "i", "n", "t", " ", "2">>

-----------------------------------------------------------------------------
(* Properties of loading *)

\* What the application shows: its tracks and icons, the two layer groups
\* and the two counts.
Shown == <<app.tracks, app.icons, map.trackLayerGroup, map.iconLayerGroup,
           ui.trackCount, ui.iconCount>>

\* In this step the text of load l becomes available and the document made
\* from it has a parsererror node.
ParseErrorStep(l) ==
    /\ loads[l].pc = "text"
    /\ IsPresent(loads'[l].doc)
    /\ Get(loads'[l].doc).parsererror

\* C2: when the markup parser reports a parse error, loadKMLFile and
\* loadKMLFromURL reject with exactly one error and parseKML is never run: no
\* {tracks, icons} is returned, not even a partial one, and the parser's
\* stored tracks and icons are unchanged.
C2_ParseErrorRejects ==
    [][\A l \in 1..Len(loads) :
          ParseErrorStep(l) =>
              /\ loads'[l].pc = "rejected"
              /\ loads'[l].error = <<"Invalid KML file format">>
              /\ loads'[l].result = Absent
              /\ parseCalls' = parseCalls
              /\ kmlParser' = kmlParser
              /\ arrays' = arrays]_vars

\* The parser holds the entities of an earlier successful load, and a later
\* load whose document has a parsererror node and partial content was
\* rejected without a result.
C2_Witness ==
    /\ Len(loads) = 2
    /\ loads[1].pc \in {"resolved", "done"}
    /\ arrays[kmlParser.tracks] # <<>>
    /\ loads[2].pc = "rejected"
    /\ IsPresent(loads[2].doc)
    /\ Get(loads[2].doc).parsererror
    /\ Get(loads[2].doc).lineStrings # <<>>
    /\ loads[2].result = Absent
    /\ parseCalls = 1

\* C3: a failed load (transport failure or malformed document), started by
\* autoLoadKML or by loadKMLFile, leaves the application's tracks and icons,
\* the displayed layers and the displayed counts as they were before the
\* load started; handleKMLLoaded is not called for it.
C3_FailedLoadKeepsDisplay ==
    [][/\ \A l \in 1..Len(loads') :
             loads'[l].pc \in {"rejected", "failed"} => ~loads'[l].handled
       /\ \A l \in 1..Len(loads) :
             (loads'[l] # loads[l] /\ loads'[l].pc \in {"rejected", "failed"})
                 => Shown' = Shown
       /\ (loads' # loads /\ Shown' # Shown)
             => \E l \in 1..Len(loads) :
                   loads[l].pc = "resolved" /\ loads'[l].pc = "done"]_vars

\* Tracks and icons of a successful load are displayed, and a later load of
\* a file has failed and its message has been shown.
C3_Witness ==
    /\ Len(loads) = 2
    /\ loads[1].pc = "done"
    /\ loads[2].pc = "failed"
    /\ loads[2].kind = "file"
    /\ Len(ui.messages) = 1
    /\ app.tracks # <<>>
    /\ map.trackLayerGroup # <<>>
    /\ map.iconLayerGroup # <<>>
    /\ ui.trackCount = Some(Len(app.tracks))

\* The loads whose promise is not settled: the fetch or the reading of the
\* text is still pending.
InFlight == {l \in 1..Len(loads) : loads[l].pc \in {"fetch", "text"}}

\* C18 (as claimed): at most one load is in flight at any time: no load is
\* started by autoLoadKML or by the file input while an earlier load's
\* promise is unsettled.
C18_AtMostOneLoadInFlight == Cardinality(InFlight) <= 1

\* The entities in the two arrays of the result that load l holds.
ResultContents(l) ==
    [tracks |-> arrays[Get(loads[l].result).tracks],
     icons |-> arrays[Get(loads[l].result).icons]]

\* In this step load l2 runs parseKML; load l1 was started after l2 and its
\* result has been delivered, so the two loads overlap and the call of l2 is
\* the second call.
SecondParse(l2, l1) ==
    /\ l2 < l1
    /\ loads[l1].pc = "done"
    /\ loads[l2].pc = "text"
    /\ loads'[l2].pc = "resolved"

\* C19 (as claimed): if two loads on the same KMLParser overlap, the buffer
\* reset at the start of the second load's parse corrupts the result of the
\* first load: the {tracks, icons} it delivers is emptied or altered.
C19_SecondParseCorruptsFirst ==
    [][\A l1 \in 1..Len(loads), l2 \in 1..Len(loads) :
          (SecondParse(l2, l1) /\ loads[l1].doc # loads'[l2].doc)
              => ResultContents(l1)' # ResultContents(l1)]_vars

\* C19 (amended): if two loads on the same KMLParser overlap, the second
\* parseKML call replaces the arrays the parser refers to, so getTracks and
\* getIcons then give the second document's entities, but the {tracks, icons}
\* already returned to the first load is not written again: no step changes
\* a result a load holds, and each load delivers the entities of its own
\* document.
C19_ReturnedResultKept ==
    [][\A l \in 1..Len(loads) :
          /\ (IsPresent(loads[l].result) /\ IsPresent(loads'[l].result))
                => ResultContents(l)' = ResultContents(l)
          /\ (loads[l].pc = "text" /\ loads'[l].pc = "resolved")
                => /\ ResultContents(l)'.tracks =
                         parseLineStrings(<<>>, Get(loads'[l].doc).lineStrings, 0)
                   /\ ResultContents(l)'.icons =
                         parsePoints(<<>>, Get(loads'[l].doc).points,
                                     Get(loads'[l].doc).ids, 0)
                   /\ kmlParser' = Get(loads'[l].result)
          /\ (loads[l].pc = "resolved" /\ loads'[l].pc = "done")
                => /\ app'.tracks = ResultContents(l).tracks
                   /\ app'.icons = ResultContents(l).icons]_vars

\* The load of a file, started while the auto-load was pending, has
\* delivered the entities of its document; the auto-load has then parsed
\* another document, and the delivered result still holds its entities.
C19_Witness ==
    /\ Len(loads) = 2
    /\ loads[2].pc = "done"
    /\ loads[1].pc = "resolved"
    /\ loads[1].doc # loads[2].doc
    /\ kmlParser = Get(loads[1].result)
    /\ Get(loads[1].result) # Get(loads[2].result)
    /\ ResultContents(2).tracks # <<>>
    /\ ResultContents(2) # ResultContents(1)
    /\ ResultContents(2).tracks =
          parseLineStrings(<<>>, Get(loads[2].doc).lineStrings, 0)
    /\ app.tracks = ResultContents(2).tracks

\* The loads that have failed and whose caller has run its catch block.
Failed == {l \in 1..Len(loads) : loads[l].pc = "failed"}

\* C20 (as claimed): every failed load, auto-load or load of a user-selected
\* file, transport failure or malformed document, results in a user-visible
\* message presented by the caller of the load.
C20_EveryFailureShown ==
    [][\A l \in 1..Len(loads) :
          (loads[l].pc = "rejected" /\ loads'[l].pc = "failed")
              => /\ Len(ui'.messages) = Len(ui.messages) + 1
                 /\ Last(ui'.messages).type = "error"]_vars

\* C20 (amended): every failed load of a user-selected file, whether the
\* cause is a transport failure or a malformed document, results in a
\* user-visible error message presented by loadKMLFile; a failed auto-load
\* from the default URL presents no message (it is logged to the console).
C20_FileFailureShown ==
    [][\A l \in 1..Len(loads) :
          (loads[l].pc = "rejected" /\ loads'[l].pc = "failed")
              => IF loads[l].kind = "file"
                 THEN /\ Len(ui'.messages) = Len(ui.messages) + 1
                      /\ Last(ui'.messages) = [text |-> loads[l].error[1], type |-> "error"]
                 ELSE ui'.messages = ui.messages]_vars

\* The auto-load failed on its transport without a message, and the load of
\* a file failed on a malformed document with one.
C20_Witness ==
    /\ Len(loads) = 2
    /\ loads[1].kind = "url" /\ loads[1].pc = "failed"
    /\ loads[1].error = <<"Failed to fetch">>
    /\ loads[2].kind = "file" /\ loads[2].pc = "failed"
    /\ loads[2].error = <<"Invalid KML file format">>
    /\ ui.messages = <<[text |-> "Invalid KML file format", type |-> "error"]>>

-----------------------------------------------------------------------------
(* Properties of the display preferences *)

CurrentVersion == JString("1.2.0")

\* The preferences a user adjusts, and every value of CONFIG, by path.
PreferencePaths ==
    { <<"map", "tracks", "color">>, <<"map", "tracks", "weight">>,
      <<"map", "tracks", "opacity">>, <<"map", "opacity">>,
      <<"kml", "icons", "scale">> }

ConfigPaths ==
    PreferencePaths
      \cup { <<"version">>, <<"map", "tracks", "smoothFactor">>,
             <<"map", "mapTypes">>, <<"kml", "icons", "defaultSize">>,
             <<"kml", "icons", "showPopups">> }

\* Two values are the same value: of one type, and equal.
SameValue(a, b) == a.type = b.type /\ a.value = b.value

\* The text is a JSON text of an object whose version is the given one.
HoldsRecordOfVersion(text, version) ==
    /\ IsPresent(text.json)
    /\ Get(text.json).type = "object"
    /\ "version" \in DOMAIN Get(text.json).value
    /\ SameValue(Get(text.json).value.version, version)

\* CONFIG after the step holds every preference the stored record holds.
RecordApplied ==
    \A p \in PreferencePaths :
        LET v == Path(Get(Get(localStorage).json), p)
        IN  v.type # "undefined" => SameValue(Path(config', p), v)

\* C24 (as stated): loadConfigFromStorage applies a stored record to CONFIG
\* only when the record's version equals CONFIG.version; when the version
\* differs or is missing, or the stored text is not valid JSON, the stored
\* record is removed and every CONFIG value is left at its default.
C24_StoredRecordGate ==
    [][LoadConfigFromStorage =>
          IF ~IsPresent(localStorage)
          THEN config' = DefaultConfig /\ localStorage' = Absent
          ELSE IF HoldsRecordOfVersion(Get(localStorage), CurrentVersion)
          THEN RecordApplied /\ localStorage' = localStorage
          ELSE config' = DefaultConfig /\ localStorage' = Absent]_vars

\* C24 (amended): as C24, for a stored text that is not empty; a stored
\* empty text is left in the storage and every CONFIG value stays at its
\* default.
C24_StoredRecordGateNonEmpty ==
    [][LoadConfigFromStorage =>
          IF ~IsPresent(localStorage)
          THEN config' = DefaultConfig /\ localStorage' = Absent
          ELSE IF Get(localStorage) = [json |-> Absent, raw |-> ""]
          THEN config' = DefaultConfig /\ localStorage' = localStorage
          ELSE IF HoldsRecordOfVersion(Get(localStorage), CurrentVersion)
          THEN RecordApplied /\ localStorage' = localStorage
          ELSE config' = DefaultConfig /\ localStorage' = Absent]_vars

\* A record of another version was found at import and removed.
C24_Witness ==
    /\ page.phase = "running"
    /\ page.console = <<"Configuration version mismatch. Clearing cache.">>
    /\ localStorage = Absent
    /\ config = DefaultConfig

\* The stored item after the step is the JSON text of CONFIG after the step
\* and carries the version.
PersistedIsConfig ==
    /\ IsPresent(localStorage')
    /\ Get(localStorage').json = Some(config')
    /\ SameValue(Path(Get(Get(localStorage').json), <<"version">>), CurrentVersion)
    /\ SameValue(Path(config', <<"version">>), CurrentVersion)

\* The step gives the values at the paths and changes no other value.
OnlyGiven(values) ==
    /\ \A p \in DOMAIN values : SameValue(Path(config', p), values[p])
    /\ \A p \in ConfigPaths \ DOMAIN values : SameValue(Path(config', p), Path(config, p))

\* A new page that finds the stored item of after the step has the same
\* preferences.
ReloadReproduces ==
    LET loaded == loadConfigFromStorage(DefaultConfig, localStorage').config
    IN  \A p \in PreferencePaths : SameValue(Path(loaded, p), Path(config', p))

\* C30: after every updateTrackStyle, updateMapOpacity and updateIconScale
\* call whose storage write succeeds, the persisted record equals CONFIG and
\* carries CONFIG.version, the call has changed only the keys it was given,
\* and loading the record into a new default CONFIG gives the same
\* preference values.
C30_PersistedRecordFollowsConfig ==
    [][/\ \A trackStyle \in TrackStylePool :
              UpdateTrackStyle(trackStyle, TRUE) =>
                  /\ PersistedIsConfig
                  /\ OnlyGiven([p \in {<<"map", "tracks", k>> : k \in DOMAIN trackStyle.value}
                                   |-> trackStyle.value[p[3]]])
                  /\ ReloadReproduces
       /\ \A opacity \in MapOpacityPool :
              UpdateMapOpacity(opacity, TRUE) =>
                  /\ PersistedIsConfig
                  /\ OnlyGiven([p \in {<<"map", "opacity">>} |-> opacity])
                  /\ ReloadReproduces
       /\ \A scale \in IconScalePool :
              UpdateIconScale(scale, TRUE) =>
                  /\ PersistedIsConfig
                  /\ OnlyGiven([p \in {<<"kml", "icons", "scale">>} |-> scale])
                  /\ ReloadReproduces]_vars

\* Several preferences were updated and the stored record is CONFIG.
C30_Witness ==
    /\ page.phase = "running"
    /\ Path(config, <<"map", "tracks", "color">>) = JString("#00ff00")
    /\ Path(config, <<"map", "tracks", "weight">>) = JNumber(Fin(10, 0))
    /\ Path(config, <<"map", "opacity">>) = JNumber(Zero)
    /\ Path(config, <<"kml", "icons", "scale">>) = JNumber(Fin(5, 1))
    /\ localStorage = Some([json |-> Some(config), raw |-> "json"])

-----------------------------------------------------------------------------
(* Properties of the map view *)

HasLine(track) == Len(track.points) >= 2

\* The lines of the tracks with at least two points, in the order given.
LinesOf(tracks) ==
    LET drawn == SelectSeq(tracks, HasLine)
    IN  [k \in 1..Len(drawn) |-> [latlngs |-> drawn[k].points]]

\* C21: after a displayTracks call the track layer holds exactly one line
\* per given track with at least two points, none for a track with fewer,
\* and nothing from an earlier call.
C21_TrackLayerIsGivenLines ==
    [][/\ \A loaded \in LoadedPool :
              HandleKMLLoaded(loaded) => map'.trackLayerGroup = LinesOf(loaded.tracks)
       /\ (\E width \in {JNumber(Fin(5, 0))} : UpdateTrackWidth(width)) /\ app.tracks # <<>>
              => map'.trackLayerGroup = LinesOf(app.tracks)]_vars

\* Two tracks were given, the first with two points and the second with
\* one, and the layer holds the line of the first only.
C21_Witness ==
    /\ Len(app.tracks) = 2
    /\ Len(app.tracks[1].points) = 2
    /\ Len(app.tracks[2].points) = 1
    /\ map.trackLayerGroup = <<[latlngs |-> app.tracks[1].points]>>
    /\ ui.trackCount = Some(2)

\* The points of the layers in the two layer groups.
RenderedPoints(m) ==
    UNION {{<<m.trackLayerGroup[k].latlngs[n].lat, m.trackLayerGroup[k].latlngs[n].lon>> :
                n \in 1..Len(m.trackLayerGroup[k].latlngs)} :
              k \in 1..Len(m.trackLayerGroup)}
      \cup {m.iconLayerGroup[k].latLng : k \in 1..Len(m.iconLayerGroup)}

\* C22: the bounds computed by fitToContent cover exactly the rendered
\* geometry, the points of the lines drawn and the positions of the markers
\* drawn; a track that is not drawn contributes no point (and with nothing
\* drawn no bounds are computed).
C22_BoundsCoverRenderedGeometry ==
    [][\A loaded \in LoadedPool :
           HandleKMLLoaded(loaded) =>
               IF RenderedPoints(map') # {}
               THEN map'.fitted = Some(RenderedPoints(map'))
               ELSE map'.fitted = map.fitted]_vars

ConfiguredTypes == {"osm", "satellite", "terrain"}

\* The step leaves both visibilities as they are.
VisibilityKept ==
    /\ areTracksVisible(map') = areTracksVisible(map)
    /\ areIconsVisible(map') = areIconsVisible(map)
    /\ map'.onMap \cap {"trackLayerGroup", "iconLayerGroup"}
           = map.onMap \cap {"trackLayerGroup", "iconLayerGroup"}

\* C26: areTracksVisible() is true exactly when the track layer group is on
\* the map and areIconsVisible() exactly when the icon layer group is;
\* setTracksVisible does not change the visibility of the icons (and
\* conversely); displaying or clearing content changes neither.
C26_VisibilityFollowsToggles ==
    /\ [](/\ areTracksVisible(map) <=> "trackLayerGroup" \in map.onMap
          /\ areIconsVisible(map) <=> "iconLayerGroup" \in map.onMap)
    /\ [][/\ \A visible \in BOOLEAN :
                 ToggleTracks(visible) =>
                     /\ areTracksVisible(map') = visible
                     /\ areIconsVisible(map') = areIconsVisible(map)
                     /\ "iconLayerGroup" \in map'.onMap <=> "iconLayerGroup" \in map.onMap
          /\ \A visible \in BOOLEAN :
                 ToggleIcons(visible) =>
                     /\ areIconsVisible(map') = visible
                     /\ areTracksVisible(map') = areTracksVisible(map)
                     /\ "trackLayerGroup" \in map'.onMap <=> "trackLayerGroup" \in map.onMap
          /\ (\/ \E loaded \in LoadedPool : HandleKMLLoaded(loaded)
              \/ \E width \in {JNumber(Fin(5, 0))} : UpdateTrackWidth(width)
              \/ \E scale \in {JNumber(Fin(5, 1)), JNumber(Fin(2, 0))} : UpdateIconSize(scale)
              \/ ClearAll)
                 => VisibilityKept]_vars

\* The track layer is hidden and holds a line, the icon layer is shown and
\* holds a marker.
C26_Witness ==
    /\ ~areTracksVisible(map)
    /\ "trackLayerGroup" \notin map.onMap
    /\ Len(map.trackLayerGroup) = 1
    /\ areIconsVisible(map)
    /\ "iconLayerGroup" \in map.onMap
    /\ Len(map.iconLayerGroup) = 1

\* C27: getCurrentMapType() agrees with the tile layer on the map: a tile
\* layer is present exactly when the current map type is a configured type,
\* and none is present exactly when it is 'none'.
C27_MapTypeAgreesWithTileLayer ==
    /\ "tileLayer" \in map.onMap <=> getCurrentMapType(map) \in ConfiguredTypes
    /\ "tileLayer" \notin map.onMap <=> getCurrentMapType(map) = "none"

\* CONFIG.map.opacity / 100 for the opacities of the slider positions used.
OpacityFraction(percent) ==
    CASE percent = JNumber(Fin(0, 0)) -> Fin(0, 0)
      [] percent = JNumber(Fin(40, 0)) -> Fin(4, 1)
      [] percent = JNumber(Fin(100, 0)) -> Fin(1, 0)

\* C28: whenever a tile layer is present its opacity is CONFIG.map.opacity
\* / 100, also for a tile layer created after the opacity was chosen.
C28_TileOpacityIsConfigOpacity ==
    IsPresent(map.currentTileLayer) =>
        /\ "tileLayer" \in map.onMap
        /\ Get(map.currentTileLayer).opacity
               = OpacityFraction(Path(config, <<"map", "opacity">>))

\* A terrain tile layer, created by a change of the map type, with the
\* opacity 0 that the slider has set.
C28_Witness ==
    /\ getCurrentMapType(map) = "terrain"
    /\ IsPresent(map.currentTileLayer)
    /\ Get(map.currentTileLayer).mapType = "terrain"
    /\ Get(map.currentTileLayer).opacity = Fin(0, 0)
    /\ Path(config, <<"map", "opacity">>) = JNumber(Fin(0, 0))

-----------------------------------------------------------------------------
(* Properties of the extraction beside the display preferences *)

\* The iconSize of the one icon of a document of the runs: 32 times the
\* scale 2 of the inline IconStyle, 32 times the scale 1.5 of the style s1.
KmlIconSize(kmlDoc) ==
    IF kmlDoc = OtherDocument THEN Some(<<Fin(48, 0), Fin(48, 0)>>)
    ELSE Some(<<Fin(64, 0), Fin(64, 0)>>)

\* C23: runs of parseKML on the same tree return equal {tracks, icons}
\* whatever CONFIG and the stored preferences are, and the iconSize of an
\* icon is derived from the scale of the KML only.
C23_ExtractionIgnoresPreferences ==
    /\ \A r1 \in Runs, r2 \in Runs :
           IsPresent(runs[r1]) /\ IsPresent(runs[r2])
               /\ Get(runs[r1]).kmlDoc = Get(runs[r2]).kmlDoc
               => Get(runs[r1]).result = Get(runs[r2]).result
    /\ \A r \in Runs :
           IsPresent(runs[r]) =>
               /\ Len(Get(runs[r]).result.icons) = 1
               /\ Get(runs[r]).result.icons[1].iconSize = KmlIconSize(Get(runs[r]).kmlDoc)

\* Two runs on the same tree under CONFIGs with different icon scales, track
\* styles and map opacities and different stored records: the markers
\* differ in size, the results are equal.
C23_Witness ==
    /\ IsPresent(runs[1]) /\ IsPresent(runs[2])
    /\ Get(runs[1]).kmlDoc = Get(runs[2]).kmlDoc
    /\ Path(Get(runs[1]).config, <<"kml", "icons", "scale">>) = JNumber(Fin(3, 0))
    /\ Path(Get(runs[2]).config, <<"kml", "icons", "scale">>) = JNumber(Fin(5, 1))
    /\ Path(Get(runs[1]).config, <<"map", "tracks">>)
           # Path(Get(runs[2]).config, <<"map", "tracks">>)
    /\ Path(Get(runs[1]).config, <<"map", "opacity">>)
           # Path(Get(runs[2]).config, <<"map", "opacity">>)
    /\ Get(runs[1]).stored # Get(runs[2]).stored
    /\ Get(runs[1]).markers[1].iconSize # Get(runs[2]).markers[1].iconSize
    /\ Get(runs[1]).result = Get(runs[2]).result

-----------------------------------------------------------------------------
(* Properties of the loads and of init *)

\* What a load hands over: the entities of its document.
Extracted(l) == parseKML(NewKMLParser, Get(loads[l].doc))

\* C25: the application's tracks and icons are the result of the load that
\* completed successfully last, both empty if none has; they change only
\* when a load completes successfully, and then both become its result.
C25_DisplayedIsLastSuccessfulLoad ==
    /\ []((\A l \in 1..Len(loads) : ~loads[l].handled)
              => app.tracks = <<>> /\ app.icons = <<>>)
    /\ [][\/ \E l \in 1..Len(loads) :
                 /\ loads[l].pc = "resolved" /\ loads'[l].pc = "done"
                 /\ app'.tracks = Extracted(l).tracks
                 /\ app'.icons = Extracted(l).icons
          \/ /\ \A l \in 1..Len(loads) : loads[l].pc = "resolved" => loads'[l].pc = "resolved"
             /\ app'.tracks = app.tracks
             /\ app'.icons = app.icons]_vars

\* Both loads have completed successfully with different results, and the
\* application holds the result of the auto-load, which was started first.
C25_Witness ==
    /\ Len(loads) = 2
    /\ loads[1].handled /\ loads[2].handled
    /\ loads[1].pc = "done" /\ loads[2].pc = "done"
    /\ Extracted(1) # Extracted(2)
    /\ app.tracks = Extracted(1).tracks
    /\ app.icons = Extracted(1).icons

AutoLoadSettled == loads[1].pc \in {"resolved", "rejected", "done", "failed"}

\* C29: isInitialized is never true while the auto-load is pending, and once
\* the auto-load has settled, with a result or a failure, init sets
\* isInitialized to true.
C29_InitializedAfterAutoLoad ==
    /\ [](app.isInitialized => loads[1].pc \in {"done", "failed"})
    /\ (AutoLoadSettled ~> app.isInitialized)

\* init has completed after an auto-load that failed on a malformed document.
C29_Witness ==
    /\ app.isInitialized
    /\ loads[1].pc = "failed"
    /\ loads[1].error = <<"Invalid KML file format">>

=============================================================================
